---- MODULE Spec2Model ----
(***************************************************************************)
(* Verification model of the libvirt-tests harness helpers                 *)
(* (src/test_helper/test_helper/test_helper.py).                           *)
(*                                                                         *)
(* Several state machines share this module, each with its own            *)
(* specification:                                                          *)
(*   SpecWait    - wait_until_succeed / wait_until_fail (bounded polling)  *)
(*   SpecGuard   - CommandGuard used in a with-statement                   *)
(*   SpecHotplug - hotplug() against a guest that enumerates PCI devices   *)
(*                 asynchronously to the harness                           *)
(*   SpecNetworks - get_local_192_168_net24_networks on interface data     *)
(*   SpecReach   - wait_for_host_shares_ipv4_network, wait_for_ping,       *)
(*                 wait_for_ssh, ssh and ip_in_local_192_168_net24         *)
(*   SpecPci     - pci_devices_by_bdf on lspci output                      *)
(*   SpecDom     - parse_devices_from_dom_def on domain definitions        *)
(*   SpecLogs    - LibvirtTestsBase.run / save_logs (log export on error)  *)
(*   SpecTls     - test_live_migration_tls_without_certificates            *)
(*   SpecDown    - teardownTestControllerVM / teardownTestComputeVM        *)
(*   SpecTearDown - LibvirtTestsBase.tearDown, both machines                *)
(*   SpecRole    - the role-bound setup and teardown functions             *)
(*   SpecHuge    - the hugepage suite and its class fixtures               *)
(*   SpecLint    - the gitlint rule BodyContainsOnBehalfOfSAPMarker        *)
(* The variables of the machines a specification does not run stay at     *)
(* their idle values.                                                      *)
(***************************************************************************)
EXTENDS Integers, Sequences, FiniteSets

VARIABLES
    \* ---- wait_until_succeed / wait_until_fail
    waiter,      \* which function runs: "succeed" | "fail" | "none"
    func,        \* func: the result of its 1st, 2nd, ... evaluation
    retries,     \* the retries argument
    w_i,         \* loop variable: iterations of `for _i in range(retries)` completed
    w_evals,     \* number of times func() has been evaluated
    w_pc,        \* "loop" | "returned" | "timeout" | "propagated" | "off"
    \* ---- CommandGuard
    guards,      \* guards constructed so far: finalizer alive?, runs of command(machine)
    n_guards,    \* guards named in the with-statement
    body_raises, \* does the with-body raise?
    cmd_raises,  \* per guard: does command(machine) raise when run?
    exited,      \* guards whose __exit__ has been called by the with-statement
    g_exc,       \* exception in flight: "none" | "body" | "cleanup"
    g_pc,        \* "enter" | "body" | "exit" | "after" | "off"
    late,        \* events after the with-statement: sequence of <<event, guard>>
    fired,       \* guards in the order in which their command(machine) ran
    \* ---- hotplug and the guest
    attached,    \* devices the hypervisor has plugged into the running domain
    visible,     \* hot-plugged devices the guest has enumerated (lspci)
    h_pc,        \* "idle" | "read_old" | "command" | "poll" | "returned" | "raised" | "off"
    h_cmd,       \* cmd argument of the running hotplug call
    expect_success, \* expect_success argument
    num_old,     \* local num_old
    num_new_expected, \* local num_new_expected
    h_reads,     \* number_of_devices() calls made before the command
    h_cmds,      \* times the mutating command was issued
    h_asserted,  \* "succeed" | "fail" | "none": the Machine method used for cmd
    h_status,    \* exit status of the mutating command (-1: not run)
    h_polls,     \* evaluations of the convergence predicate
    h_last_obs,  \* device count seen by the last evaluation (-1: none yet)
    h_cmd_before_read, \* history: the command was issued before num_old was read
    h_err,       \* error raised by the call: [tag, cmd]
    h_before,    \* history: guest device count when hotplug was called
    h_prev,      \* history: the previous call of this scenario that returned
    h_calls,     \* hotplug calls made in the running scenario
    \* ---- get_local_192_168_net24_networks
    k_status,    \* exit status of `ip -j a`
    k_interfaces, \* the interface objects `ip -j a` prints
    k_out,       \* result of the call: [exc, networks]
    k_pc,        \* "call" | "done" | "off"
    \* ---- the reachability waits and ssh
    s_entry,     \* the function called
    s_ip,        \* its ip argument
    s_retries,   \* its retries argument (0 where it has none)
    s_ping_check, \* ping_check argument of ssh
    s_pc,        \* "check" | "net" | "ping" | "ssh" | "returned" | "raised" | "off"
    n_net,       \* evaluations of ip_in_local_192_168_net24
    n_ping,      \* ping commands issued
    n_ssh,       \* sshpass commands issued
    n_remote,    \* remote commands (machine.execute) issued in all
    s_net_ok,    \* the last host-network check found a network holding ip
    s_ping_ok,   \* the last ping was answered
    s_err,       \* exception that left the call, "none" if none
    s_cause,     \* what the host-network error was raised from
    s_ip_a,      \* the output of `ip a` was fetched for the error message
    s_value,     \* value returned by ip_in_local_192_168_net24
    \* ---- pci_devices_by_bdf
    p_lines,     \* the lines `lspci -n` prints in the guest
    p_ssh_status, \* exit status of the ssh command
    p_out,       \* result of the call: [exc, map]
    p_pc,        \* "call" | "done" | "off"
    \* ---- parse_devices_from_dom_def
    x_docs,      \* the domain definition document at each path of the machine
    x_last,      \* the latest call: [path, exc, map]
    x_seen,      \* per path: successful parses made and the map the first returned
    x_calls,     \* calls made
    \* ---- LibvirtTestsBase.run
    l_env,       \* "DBG_LOG_DIR" in os.environ
    l_machines,  \* the machines of the test case that are not None
    l_depth,     \* wrappers installed on result.addError / addFailure
    l_pc,        \* "idle" | "body" | "save" | "aborted" | "off"
    l_kind,      \* what is being reported: "error" | "failure" | "none"
    l_level,     \* the wrapper whose save_logs is running
    l_todo,      \* copies the running save_logs still has to make
    l_copies,    \* copies attempted for the current report
    l_raised,    \* a copy of the current report raised
    l_reports,   \* errors and failures reported to the result
    l_recorded,  \* errors and failures the result has recorded
    l_saves,     \* save_logs invocations made for the current report
    \* ---- test_live_migration_tls_without_certificates
    t_iter,      \* iteration of `for remove_cert_dir in [True, False]`
    t_block,     \* the with-block of the iteration: 1 both machines, 2 controller, 3 compute
    t_pc,        \* "remove" | "enter" | "body" | "exit" | "check" | "ended" | "off"
    t_idx,       \* position inside the phase
    t_guards,    \* machines of the CommandGuards entered and not yet exited
    t_exc,       \* exception in flight, by the step that raised it, or "none"
    t_pending,   \* machines whose certificates were moved away with no reset_certs run since
    \* ---- teardownTestControllerVM
    d_vm,        \* the teardown function running: "controllerVM" | "computeVM"
    d_name,      \* name of the machine passed to it
    d_pc,        \* index of the next step; 0: ended or off
    d_done,      \* the steps executed: sequence of [step, status]
    d_status,    \* exit status of the journal grep (-1: not sampled)
    d_exc,       \* "none" | "RuntimeError" | "command" | "AssertionError"
    d_image,     \* /nfs-root/nixos.img: "golden" | "modified"
    d_fn,        \* the function running: "initial" | "setupTest" | "teardownTest"
    d_prev,      \* tearDown: how the teardown of the controller VM went
    \* ---- LibvirtTests
    u_pc,        \* "setUpClass" | "tests" | "tearDownClass" | "done" | "off"
    u_idx,       \* next step of the class fixture, or next test of the suite
    u_pages,     \* per machine: hugepages are allocated
    u_ran,       \* tests run: [test, body, controller, compute], the pages at the start of the test
    u_exc,       \* "setUpClass" | "tearDownClass" when that fixture raised
    \* ---- BodyContainsOnBehalfOfSAPMarker
    c_email,     \* commit.author_email, as a sequence of string pieces
    c_body,      \* commit.message.body: the lines, each a sequence of string pieces
    c_out        \* "pending" | "none" | "violation" | "off"

wait_vars  == <<waiter, func, retries, w_i, w_evals, w_pc>>
guard_vars == <<guards, n_guards, body_raises, cmd_raises, exited,
                g_exc, g_pc, late, fired>>
hot_vars   == <<attached, visible, h_pc, h_cmd, expect_success, num_old,
                num_new_expected, h_reads, h_cmds, h_asserted, h_status,
                h_polls, h_last_obs, h_cmd_before_read, h_err, h_before,
                h_prev, h_calls>>
networks_vars == <<k_status, k_interfaces, k_out, k_pc>>
reach_vars == <<s_entry, s_ip, s_retries, s_ping_check, s_pc, n_net, n_ping,
                n_ssh, n_remote, s_net_ok, s_ping_ok, s_err, s_cause, s_ip_a,
                s_value>>
net_vars   == <<networks_vars, reach_vars>>
pci_vars == <<p_lines, p_ssh_status, p_out, p_pc>>
dom_vars == <<x_docs, x_last, x_seen, x_calls>>
logs_vars == <<l_env, l_machines, l_depth, l_pc, l_kind, l_level, l_todo,
            l_copies, l_raised, l_reports, l_recorded, l_saves>>
tls_vars == <<t_iter, t_block, t_pc, t_idx, t_guards, t_exc, t_pending>>
down_vars == <<d_vm, d_name, d_pc, d_done, d_status, d_exc, d_image, d_fn,
            d_prev>>
huge_vars == <<u_pc, u_idx, u_pages, u_ran, u_exc>>
lint_vars == <<c_email, c_body, c_out>>
more_vars == <<pci_vars, dom_vars, logs_vars, tls_vars, down_vars,
              huge_vars, lint_vars>>
pci_rest == <<dom_vars, logs_vars, tls_vars, down_vars, huge_vars,
              lint_vars>>
dom_rest == <<pci_vars, logs_vars, tls_vars, down_vars, huge_vars,
              lint_vars>>
logs_rest == <<pci_vars, dom_vars, tls_vars, down_vars, huge_vars,
              lint_vars>>
tls_rest == <<pci_vars, dom_vars, logs_vars, down_vars, huge_vars,
              lint_vars>>
down_rest == <<pci_vars, dom_vars, logs_vars, tls_vars, huge_vars,
              lint_vars>>
huge_rest == <<pci_vars, dom_vars, logs_vars, tls_vars, down_vars,
              lint_vars>>
lint_rest == <<pci_vars, dom_vars, logs_vars, tls_vars, down_vars,
              huge_vars>>
vars == <<wait_vars, guard_vars, hot_vars, net_vars, more_vars>>

(***************************************************************************)
(* Bounds of the model                                                     *)
(***************************************************************************)
MaxRetries == 3
MaxGuards == 2
MaxLate == 2
MaxDevs == 2
MaxCalls == 3
BootDevices == 2
MaxTries == 2
MaxIfaces == 2
MaxAddrs == 2
MaxLines == 3
MaxDomDevices == 2
MaxParses == 3
MaxTests == 2
MaxReports == 2
MaxBodyLines == 2

(***************************************************************************)
(* Idle values: the state of a machine that a specification does not run   *)
(***************************************************************************)
NoCmd == [prog |-> "none", verb |-> "none", dev |-> 0]
NoErr == [tag |-> "none", cmd |-> NoCmd]
NoCall == [verb |-> "none", dev |-> 0, expect |-> FALSE, before |-> 0]

WaitOff ==
    /\ waiter = "none" /\ func = <<>> /\ retries = 0
    /\ w_i = 0 /\ w_evals = 0 /\ w_pc = "off"

GuardOff ==
    /\ guards = <<>> /\ n_guards = 0 /\ body_raises = FALSE
    /\ cmd_raises = <<>> /\ exited = 0 /\ g_exc = "none" /\ g_pc = "off"
    /\ late = <<>> /\ fired = <<>>

HotplugOff ==
    /\ attached = {} /\ visible = {} /\ h_pc = "off" /\ h_cmd = NoCmd
    /\ expect_success = FALSE /\ num_old = 0 /\ num_new_expected = 0
    /\ h_reads = 0 /\ h_cmds = 0 /\ h_asserted = "none" /\ h_status = -1 /\ h_polls = 0
    /\ h_last_obs = -1 /\ h_cmd_before_read = FALSE /\ h_err = NoErr
    /\ h_before = 0 /\ h_prev = NoCall /\ h_calls = 0

NoNetworks == [exc |-> "none", networks |-> <<>>]
NoSnapshot == [exc |-> "none", map |-> <<>>]
NoParse == [path |-> "none", exc |-> "none", map |-> <<>>]
NoTeardown == [ran |-> FALSE, exc |-> "none", done |-> <<>>]

NetworksOff ==
    /\ k_status = 0 /\ k_interfaces = <<>> /\ k_out = NoNetworks
    /\ k_pc = "off"

ReachOff ==
    /\ s_entry = "none" /\ s_ip = [t |-> "none", f |-> <<>>]
    /\ s_retries = 0 /\ s_ping_check = FALSE /\ s_pc = "off"
    /\ n_net = 0 /\ n_ping = 0 /\ n_ssh = 0 /\ n_remote = 0
    /\ s_net_ok = FALSE /\ s_ping_ok = FALSE
    /\ s_err = "none" /\ s_cause = "none" /\ s_ip_a = FALSE
    /\ s_value = "none"

NetOff == NetworksOff /\ ReachOff

PciOff ==
    /\ p_lines = <<>>
    /\ p_ssh_status = 0
    /\ p_out = NoSnapshot
    /\ p_pc = "off"

DomOff ==
    /\ x_docs = <<>>
    /\ x_last = NoParse
    /\ x_seen = <<>>
    /\ x_calls = 0

LogsOff ==
    /\ l_env = FALSE
    /\ l_machines = {}
    /\ l_depth = 0
    /\ l_pc = "off"
    /\ l_kind = "none"
    /\ l_level = 0
    /\ l_todo = <<>>
    /\ l_copies = {}
    /\ l_raised = FALSE
    /\ l_reports = 0
    /\ l_recorded = 0
    /\ l_saves = 0

TlsOff ==
    /\ t_iter = 0
    /\ t_block = 0
    /\ t_pc = "off"
    /\ t_idx = 0
    /\ t_guards = <<>>
    /\ t_exc = "none"
    /\ t_pending = {}

DownOff ==
    /\ d_vm = "none"
    /\ d_name = "none"
    /\ d_pc = 0
    /\ d_done = <<>>
    /\ d_status = -1
    /\ d_exc = "none"
    /\ d_image = "none"
    /\ d_fn = "none"
    /\ d_prev = NoTeardown

HugeOff ==
    /\ u_pc = "off"
    /\ u_idx = 0
    /\ u_pages = <<>>
    /\ u_ran = <<>>
    /\ u_exc = "none"

LintOff ==
    /\ c_email = <<>>
    /\ c_body = <<>>
    /\ c_out = "off"

MoreOff ==
    /\ PciOff
    /\ DomOff
    /\ LogsOff
    /\ TlsOff
    /\ DownOff
    /\ HugeOff
    /\ LintOff

PciRestOff ==
    /\ WaitOff /\ GuardOff /\ HotplugOff /\ NetOff
    /\ DomOff
    /\ LogsOff
    /\ TlsOff
    /\ DownOff
    /\ HugeOff
    /\ LintOff

DomRestOff ==
    /\ WaitOff /\ GuardOff /\ HotplugOff /\ NetOff
    /\ PciOff
    /\ LogsOff
    /\ TlsOff
    /\ DownOff
    /\ HugeOff
    /\ LintOff

LogsRestOff ==
    /\ WaitOff /\ GuardOff /\ HotplugOff /\ NetOff
    /\ PciOff
    /\ DomOff
    /\ TlsOff
    /\ DownOff
    /\ HugeOff
    /\ LintOff

TlsRestOff ==
    /\ WaitOff /\ GuardOff /\ HotplugOff /\ NetOff
    /\ PciOff
    /\ DomOff
    /\ LogsOff
    /\ DownOff
    /\ HugeOff
    /\ LintOff

DownRestOff ==
    /\ WaitOff /\ GuardOff /\ HotplugOff /\ NetOff
    /\ PciOff
    /\ DomOff
    /\ LogsOff
    /\ TlsOff
    /\ HugeOff
    /\ LintOff

HugeRestOff ==
    /\ WaitOff /\ GuardOff /\ HotplugOff /\ NetOff
    /\ PciOff
    /\ DomOff
    /\ LogsOff
    /\ TlsOff
    /\ DownOff
    /\ LintOff

LintRestOff ==
    /\ WaitOff /\ GuardOff /\ HotplugOff /\ NetOff
    /\ PciOff
    /\ DomOff
    /\ LogsOff
    /\ TlsOff
    /\ DownOff
    /\ HugeOff

(***************************************************************************)
(* wait_until_succeed(func, retries) and wait_until_fail(func, retries)    *)
(*                                                                         *)
(*     for _i in range(retries):                                           *)
(*         if func():            # wait_until_fail: if not func():         *)
(*             return                                                      *)
(*         time.sleep(0.1)                                                 *)
(*     raise RuntimeError("function didn't succeed")                       *)
(*                                                                         *)
(* func is given by the results of its successive evaluations; "raise" is  *)
(* an evaluation that throws (the lambdas the helpers pass call ssh(),     *)
(* which raises RuntimeError).                                             *)
(***************************************************************************)
Results == {"true", "false", "raise"}

\* Mutation of Attempts: off-by-one loop bound, range(retries - 1).
Attempts_OneShort(r) == r - 1

\* Mutation of Attempts: one iteration too many, range(retries + 1).
Attempts_OneMore(r) == r + 1

\* range(retries): the number of loop iterations the budget allows.
Attempts(r) == r

\* Mutation of Awaited: wait_until_fail testing func() without the `not`.
Awaited_FailUnnegated(w, r) == r = "true"

\* Mutation of Awaited: the test in the loop inverted.
Awaited_Inverted(w, r) == IF w = "succeed" THEN r = "false" ELSE r = "true"

\* The condition of the `if` that returns: func() for wait_until_succeed,
\* not func() for wait_until_fail.
Awaited(w, r) == IF w = "succeed" THEN r = "true" ELSE r = "false"

\* Where the call stands after func() gave r: an exception of func leaves the
\* function (nothing catches it), the awaited value returns, anything else
\* sleeps and loops.
AfterEval(w, r) ==
    IF r = "raise" THEN "propagated"
    ELSE IF Awaited(w, r) THEN "returned"
    ELSE "loop"

\* The whole loop from iteration i on: the number of evaluations of func made
\* and how the call ends.
RECURSIVE WaitRun(_, _, _, _)
WaitRun(w, f, r, i) ==
    IF i >= Attempts(r) THEN [evals |-> i, pc |-> "timeout"]
    ELSE LET next == AfterEval(w, f[i + 1])
         IN IF next = "loop" THEN WaitRun(w, f, r, i + 1)
            ELSE [evals |-> i + 1, pc |-> next]

\* not func(): the negation of a result; an evaluation that raises still raises.
Negated(f) ==
    [k \in DOMAIN f |-> IF f[k] = "true" THEN "false"
                        ELSE IF f[k] = "false" THEN "true"
                        ELSE "raise"]

InitWait ==
    /\ waiter \in {"succeed", "fail"}
    /\ retries \in 0..MaxRetries
    /\ func \in [1..MaxRetries -> Results]
    /\ w_i = 0 /\ w_evals = 0 /\ w_pc = "loop"
    /\ GuardOff /\ HotplugOff /\ NetOff /\ MoreOff

\* One iteration of the loop: evaluate func, return / propagate / sleep.
WaitEvaluate ==
    /\ w_pc = "loop"
    /\ w_i < Attempts(retries)
    /\ LET r == func[w_evals + 1]
           next == AfterEval(waiter, r)
       IN /\ w_evals' = w_evals + 1
          /\ w_pc' = next
          /\ w_i' = IF next = "loop" THEN w_i + 1 ELSE w_i
    /\ UNCHANGED <<waiter, func, retries, guard_vars, hot_vars,
                   net_vars, more_vars>>

\* The loop is exhausted: raise RuntimeError.
WaitExhausted ==
    /\ w_pc = "loop"
    /\ w_i >= Attempts(retries)
    /\ w_pc' = "timeout"
    /\ UNCHANGED <<waiter, func, retries, w_i, w_evals, guard_vars, hot_vars,
                   net_vars, more_vars>>

NextWait == WaitEvaluate \/ WaitExhausted

SpecWait == InitWait /\ [][NextWait]_vars

\* The evaluation at which func first gives "true" after only "false"
\* results; 0 when there is none.
FirstTrue ==
    LET ks == {k \in DOMAIN func :
                 /\ func[k] = "true"
                 /\ \A j \in 1..(k - 1) : func[j] = "false"}
    IN IF ks = {} THEN 0 ELSE CHOOSE k \in ks : TRUE

AlwaysFalse == \A k \in DOMAIN func : func[k] = "false"

\* C2: for retries >= 1 and a predicate whose first true result is its k-th
\* evaluation, 1 <= k <= retries, wait_until_succeed returns normally after
\* exactly k evaluations: it never evaluates the predicate more than k times,
\* it has returned as soon as the k-th evaluation is made, and it never raises.
C2_ReturnsAtFirstTrue ==
    (waiter = "succeed" /\ retries >= 1 /\ FirstTrue \in 1..retries) =>
        /\ w_evals <= FirstTrue
        /\ w_pc \in {"loop", "returned"}
        /\ (w_pc = "returned" <=> w_evals = FirstTrue)

\* Witness of C2: the predicate became true at its 2nd evaluation of 3 allowed
\* and wait_until_succeed has returned.
C2_Witness ==
    /\ waiter = "succeed" /\ retries = 3 /\ FirstTrue = 2
    /\ w_pc = "returned" /\ w_evals = 2

\* C3: for retries >= 0 and a predicate that is false at every evaluation,
\* wait_until_succeed raises the timeout error after exactly `retries`
\* evaluations: it never returns normally, never evaluates more than
\* `retries` times, and raises only once `retries` evaluations are made.
C3_TimeoutAfterRetries ==
    (waiter = "succeed" /\ AlwaysFalse) =>
        /\ w_pc \in {"loop", "timeout"}
        /\ w_evals <= retries
        /\ (w_pc = "timeout" => w_evals = retries)
        /\ (w_pc = "loop" /\ w_evals = retries => ENABLED WaitExhausted)

\* Witness of C3: three evaluations, all false, then the timeout error.
C3_Witness ==
    /\ waiter = "succeed" /\ AlwaysFalse /\ retries = 3
    /\ w_pc = "timeout" /\ w_evals = 3

\* C19: wait_until_fail(f, retries) evaluates f as many times and ends the
\* same way (return, timeout error, exception of f) as
\* wait_until_succeed(not f, retries) does.
C19_FailIsDualOfSucceed ==
    (waiter = "fail" /\ w_pc \in {"returned", "timeout", "propagated"}) =>
        [evals |-> w_evals, pc |-> w_pc]
            = WaitRun("succeed", Negated(func), retries, 0)

\* Witness of C19: wait_until_fail returned at the second evaluation, the
\* first at which the predicate was false.
C19_Witness ==
    /\ waiter = "fail" /\ retries = 3
    /\ func[1] = "true" /\ func[2] = "false"
    /\ w_pc = "returned" /\ w_evals = 2

(***************************************************************************)
(* CommandGuard in a with-statement                                        *)
(*                                                                         *)
(*   with CommandGuard(c1, m1) as _, CommandGuard(c2, m2) as _:  body      *)
(*                                                                         *)
(* __init__ registers weakref.finalize(self, command, machine); __exit__   *)
(* calls the finalizer.  A finalizer runs its callback at most once: the   *)
(* call removes it from the registry before the callback runs, so it is    *)
(* dead afterwards even when the callback raised.  A with-statement naming *)
(* several guards is the nesting of one with-statement per guard.          *)
(***************************************************************************)
\* CommandGuard.__init__: a live finalizer whose callback has not run.
CommandGuard_init == [alive |-> TRUE, runs |-> 0]

\* Mutation of FinalizerCall: command(machine) called directly, the finalizer
\* left alive.
FinalizerCall_StaysAlive(g) ==
    IF g.alive THEN [alive |-> TRUE, runs |-> g.runs + 1] ELSE g

\* self._finilizer(): run command(machine) if the finalizer is alive; dead after.
FinalizerCall(g) ==
    IF g.alive THEN [alive |-> FALSE, runs |-> g.runs + 1] ELSE g

\* Mutation of ExitSuppresses: __exit__ returning True.
ExitSuppresses_ReturnsTrue(exc) == exc # "none"

\* Whether __exit__ swallows the exception in flight: it returns None (falsy).
ExitSuppresses(exc) == FALSE

\* Mutation of ExitFires: cleanup only on the normal exit path.
ExitFires_OnlyOnSuccess(exc) == exc = "none"

\* __exit__(exc_type, exc_val, exc_tb) calls the finalizer whatever exc_type is.
ExitFires(exc) == TRUE

\* Mutation of ExitIndex: the guards exited in the order of entry.
ExitIndex_EntryOrder(n, k) == k + 1

\* The guard whose __exit__ the with-statement calls next, k of its n guards
\* being exited: the innermost one not yet exited.
ExitIndex(n, k) == n - k

\* The guards of alive whose finalizer runs its callback, newest first (atexit
\* runs the live finalizers in reverse order of creation).
RECURSIVE NewestFirst(_, _)
NewestFirst(gs, k) ==
    IF k = 0 THEN <<>>
    ELSE (IF gs[k].alive THEN <<k>> ELSE <<>>) \o NewestFirst(gs, k - 1)

InitGuard ==
    /\ n_guards \in 1..MaxGuards
    /\ body_raises \in BOOLEAN
    /\ cmd_raises \in UNION {[1..n -> BOOLEAN] : n \in 1..MaxGuards}
    /\ Len(cmd_raises) = n_guards
    /\ guards = <<>> /\ exited = 0 /\ g_exc = "none" /\ g_pc = "enter"
    /\ late = <<>> /\ fired = <<>>
    /\ WaitOff /\ HotplugOff /\ NetOff /\ MoreOff

\* Evaluate the next with-item: construct the guard and call __enter__.
GuardEnter ==
    /\ g_pc = "enter"
    /\ Len(guards) < n_guards
    /\ guards' = Append(guards, CommandGuard_init)
    /\ g_pc' = IF Len(guards) + 1 = n_guards THEN "body" ELSE "enter"
    /\ UNCHANGED <<n_guards, body_raises, cmd_raises, exited, g_exc, late,
                   fired, wait_vars, hot_vars,
                   net_vars, more_vars>>

\* The with-body runs to its end or raises.
GuardBody ==
    /\ g_pc = "body"
    /\ g_exc' = IF body_raises THEN "body" ELSE "none"
    /\ g_pc' = "exit"
    /\ UNCHANGED <<guards, n_guards, body_raises, cmd_raises, exited, late,
                   fired, wait_vars, hot_vars,
                   net_vars, more_vars>>

\* The with-statement calls __exit__ of the innermost guard not yet exited.
\* __exit__ returns None, so an exception in flight is not suppressed; an
\* exception of command(machine) replaces it.
GuardExit ==
    /\ g_pc = "exit"
    /\ LET g == ExitIndex(n_guards, exited)
           fires == ExitFires(g_exc) /\ guards[g].alive
       IN /\ guards' = IF ExitFires(g_exc)
                       THEN [guards EXCEPT ![g] = FinalizerCall(guards[g])]
                       ELSE guards
          /\ fired' = IF fires THEN Append(fired, g) ELSE fired
          /\ g_exc' = IF fires /\ cmd_raises[g] THEN "cleanup"
                      ELSE IF ExitSuppresses(g_exc) THEN "none"
                      ELSE g_exc
    /\ exited' = exited + 1
    /\ g_pc' = IF exited + 1 = n_guards THEN "after" ELSE "exit"
    /\ UNCHANGED <<n_guards, body_raises, cmd_raises, late, wait_vars, hot_vars,
                   net_vars, more_vars>>

\* After the with-statement: __exit__ called again on a guard, the guard is
\* garbage collected (the weakref callback is the finalizer), or the
\* interpreter exits (atexit runs the finalizers still alive).
LateEvents == {"exit_again", "gc", "atexit"}

GuardLate ==
    /\ g_pc = "after"
    /\ Len(late) < MaxLate
    /\ \E ev \in LateEvents, g \in 1..n_guards :
          /\ late' = Append(late, <<ev, g>>)
          /\ guards' = IF ev = "atexit"
                       THEN [k \in 1..n_guards |-> FinalizerCall(guards[k])]
                       ELSE [guards EXCEPT ![g] = FinalizerCall(guards[g])]
          /\ fired' = IF ev = "atexit"
                      THEN fired \o NewestFirst(guards, n_guards)
                      ELSE IF guards[g].alive THEN Append(fired, g)
                      ELSE fired
    /\ UNCHANGED <<n_guards, body_raises, cmd_raises, exited, g_exc, g_pc,
                   wait_vars, hot_vars,
                   net_vars, more_vars>>

NextGuard == GuardEnter \/ GuardBody \/ GuardExit \/ GuardLate

SpecGuard == InitGuard /\ [][NextGuard]_vars

\* C1: by the time the with-statement is fully exited, on the normal path and
\* on the path where the body raised, the cleanup action of every guard of the
\* statement has run exactly once (and it never runs more than once).
C1_CleanupExactlyOnce ==
    /\ \A g \in 1..Len(guards) : guards[g].runs <= 1
    /\ (g_pc = "after" =>
           /\ Len(guards) = n_guards
           /\ \A g \in 1..n_guards : guards[g].runs = 1)

\* Witness of C1: the body raised, the with-statement is exited and the
\* cleanup has run once.
C1_Witness ==
    /\ g_pc = "after" /\ body_raises /\ n_guards = 1
    /\ g_exc = "body" /\ guards[1].runs = 1

\* C11: a guard that has fired is inert: once its cleanup action has run, no
\* step - a second __exit__, garbage collection, interpreter exit - changes
\* the guard again, whether or not the cleanup action raised; a guard whose
\* cleanup has run has a dead finalizer.
C11_InertAfterFiring ==
    [][\A g \in 1..Len(guards) :
          guards[g].runs >= 1 =>
              /\ ~guards[g].alive
              /\ guards'[g] = guards[g]]_vars

\* Witness of C11: the cleanup action of the guard raised, and __exit__ was
\* called again and the interpreter exited afterwards; the action ran once.
C11_Witness ==
    /\ g_pc = "after" /\ n_guards = 1 /\ cmd_raises[1]
    /\ late = <<<<"exit_again", 1>>, <<"atexit", 1>>>>
    /\ guards[1].runs = 1

\* C12: an error raised inside the with-block is not suppressed: when the
\* with-statement is exited after the body raised, an exception is still in
\* flight - the body's own, unless a cleanup action raised in its place.
C12_BodyErrorPropagates ==
    (g_pc = "after" /\ body_raises) =>
        /\ g_exc # "none"
        /\ ((\A g \in 1..n_guards : ~cmd_raises[g]) => g_exc = "body")

\* Witness of C12: the body raised, the cleanup ran without raising and the
\* body's exception leaves the with-statement.
C12_Witness ==
    /\ g_pc = "after" /\ body_raises /\ n_guards = 2
    /\ \A g \in 1..n_guards : ~cmd_raises[g] /\ guards[g].runs = 1
    /\ g_exc = "body"

\* C28: when the with-statement is exited the cleanup actions of all its
\* guards have run, in reverse order of entry (the guard entered last
\* first), also when the body raised and when the cleanup action of a guard
\* entered later raised; while it is being exited the actions run so far are
\* those of the guards entered last.
C28_ReverseOrderOfEntry ==
    /\ (g_pc = "exit") =>
          fired = [i \in 1..exited |-> n_guards - i + 1]
    /\ (g_pc = "after") =>
          fired = [i \in 1..n_guards |-> n_guards - i + 1]

\* Witness of C28: two guards, the body raised and the cleanup action of the
\* guard entered last raised; both actions ran, the last-entered first.
C28_Witness ==
    /\ g_pc = "after" /\ n_guards = 2 /\ body_raises
    /\ cmd_raises[2] /\ ~cmd_raises[1]
    /\ fired = <<2, 1>> /\ g_exc = "cleanup"

(***************************************************************************)
(* hotplug(machine, cmd, expect_success) and the guest                     *)
(*                                                                         *)
(* The harness is single-threaded; the guest re-enumerates its PCI bus     *)
(* asynchronously (GuestEnumerate may happen between any two steps of the  *)
(* harness).  The steps of hotplug are its remote calls:                   *)
(*   classification (no remote call), num_old = number_of_devices(machine), *)
(*   machine.succeed(cmd) / machine.fail(cmd), and the evaluations of      *)
(*   wait_until_succeed(lambda: number_of_devices(machine) == new_count, 20) *)
(* A scenario is a sequence of hotplug calls on one running domain; an     *)
(* exception ends the scenario, tearDown destroys the domain and the next  *)
(* scenario starts a fresh one.                                            *)
(***************************************************************************)
PciEnumRetries == 20

Devices == 1..MaxDevs

\* A command line: its first word, the start of its second word, and the
\* device it is about.  cmd.startswith("virsh attach-") holds iff the first
\* word is "virsh" and the second starts with "attach-".
Cmds == [prog : {"virsh", "sudo"}, verb : {"attach-", "detach-", "start"},
         dev : Devices]

\* Mutation of Classify: an unrecognized command treated as a detach.
Classify_DefaultDetach(cmd) ==
    IF cmd.prog = "virsh" /\ cmd.verb = "attach-" THEN "attach" ELSE "detach"

\* The if / elif / else on cmd.startswith(...) at the top of hotplug.
Classify(cmd) ==
    IF cmd.prog = "virsh" /\ cmd.verb = "attach-" THEN "attach"
    ELSE IF cmd.prog = "virsh" /\ cmd.verb = "detach-" THEN "detach"
    ELSE "invalid"

\* Mutation of StepAfter: the command issued before num_old is read.
StepAfter_CommandFirst(step) ==
    CASE step = "classify" -> "command"
      [] step = "command" -> "read_old"
      [] step = "read_old" -> "poll"

\* The statement order of hotplug after a recognized command: read num_old,
\* run the command, wait for the guest.
StepAfter(step) ==
    CASE step = "classify" -> "read_old"
      [] step = "read_old" -> "command"
      [] step = "command" -> "poll"

\* Mutation of NumNewExpected: a successful attach expected to change nothing.
NumNewExpected_AttachNoop(is_attach, es, old) ==
    CASE is_attach = TRUE /\ es = TRUE -> old
      [] is_attach = TRUE /\ es = FALSE -> old
      [] is_attach = FALSE /\ es = TRUE -> old - 1
      [] is_attach = FALSE /\ es = FALSE -> old
      [] OTHER -> -1

\* Mutation of NumNewExpected: a successful detach expected to change nothing.
NumNewExpected_DetachNoop(is_attach, es, old) ==
    CASE is_attach = TRUE /\ es = TRUE -> old + 1
      [] is_attach = TRUE /\ es = FALSE -> old
      [] is_attach = FALSE /\ es = TRUE -> old
      [] is_attach = FALSE /\ es = FALSE -> old
      [] OTHER -> -1

\* Mutation of NumNewExpected: a successful detach expected to add a device.
NumNewExpected_DetachAdds(is_attach, es, old) ==
    CASE is_attach = TRUE /\ es = TRUE -> old + 1
      [] is_attach = TRUE /\ es = FALSE -> old
      [] is_attach = FALSE /\ es = TRUE -> old + 1
      [] is_attach = FALSE /\ es = FALSE -> old
      [] OTHER -> -1

\* num_new_expected as the match statement assigns it (-1 when no case matches).
NumNewExpected(is_attach, es, old) ==
    CASE is_attach = TRUE /\ es = TRUE -> old + 1
      [] is_attach = TRUE /\ es = FALSE -> old
      [] is_attach = FALSE /\ es = TRUE -> old - 1
      [] is_attach = FALSE /\ es = FALSE -> old
      [] OTHER -> -1

\* The Machine method the match statement runs cmd with.
Asserted(is_attach, es) ==
    CASE es = TRUE -> "succeed"
      [] es = FALSE -> "fail"
      [] OTHER -> "none"

\* Mutation of ExpectationMet: the exit status of the command not looked at,
\* as by machine.execute.
ExpectationMet_Unchecked(how, st) == TRUE

\* machine.succeed(cmd) returns when cmd exits with 0 and machine.fail(cmd)
\* when it does not; they raise otherwise.
ExpectationMet(how, st) ==
    (how = "succeed" /\ st = 0) \/ (how = "fail" /\ st # 0)

\* Mutation of CountMatches: the poll accepts any count at or above the target.
CountMatches_AtLeast(count, new_count) == count >= new_count

\* The predicate of wait_for_guest_pci_device_enumeration.
CountMatches(count, new_count) == count = new_count

\* What `lspci | wc -l` prints in the guest.
GuestCount == BootDevices + Cardinality(visible)

\* What the host and the guest answer to one ssh() call: whether the host
\* has an address in the guest's /24 network within the 20 checks of
\* wait_for_host_shares_ipv4_network, the exit status of the single ping and
\* the exit status of the sshpass command.
RemoteEnv == [net_ok : BOOLEAN, ping : {0, 1}, ssh : {0, 255}]

\* number_of_devices(machine): ssh(machine, "lspci | wc -l") with
\* ping_check=True, then int(out).  ssh raises RuntimeError when the host
\* network never shows up, when the ping fails or when the command fails.
number_of_devices(env) ==
    IF ~env.net_ok THEN [raised |-> TRUE, tag |-> "no_host_network", value |-> -1]
    ELSE IF env.ping # 0 THEN [raised |-> TRUE, tag |-> "no_ping", value |-> -1]
    ELSE IF env.ssh # 0 THEN [raised |-> TRUE, tag |-> "ssh_failed", value |-> -1]
    ELSE [raised |-> FALSE, tag |-> "none", value |-> GuestCount]

\* Exit statuses virsh can give for cmd: attaching a device that is plugged
\* fails, attaching one that is not succeeds or is rejected (e.g. an invalid
\* address); detaching succeeds iff the device is plugged.
PossibleExit(cmd) ==
    IF Classify(cmd) = "attach"
    THEN (IF cmd.dev \in attached THEN {1} ELSE {0, 1})
    ELSE (IF cmd.dev \in attached THEN {0} ELSE {1})

\* The hypervisor's device set after cmd exited with status st: only a
\* command that succeeded changes it.
AfterCommand(cmd, st) ==
    IF st # 0 THEN attached
    ELSE IF Classify(cmd) = "attach" THEN attached \cup {cmd.dev}
    ELSE attached \ {cmd.dev}

InitHotplug ==
    /\ attached = {} /\ visible = {} /\ h_pc = "idle" /\ h_cmd = NoCmd
    /\ expect_success = FALSE /\ num_old = 0 /\ num_new_expected = 0
    /\ h_reads = 0 /\ h_cmds = 0 /\ h_asserted = "none" /\ h_status = -1 /\ h_polls = 0
    /\ h_last_obs = -1 /\ h_cmd_before_read = FALSE /\ h_err = NoErr
    /\ h_before = 0 /\ h_prev = NoCall /\ h_calls = 0
    /\ WaitOff /\ GuardOff /\ NetOff /\ MoreOff

\* The scenario calls hotplug(machine, cmd, es); the command is classified,
\* and rejected with a RuntimeError naming it when it is neither.
HotplugCall ==
    /\ h_pc = "idle"
    /\ h_calls < MaxCalls
    /\ \E cmd \in Cmds, es \in BOOLEAN :
          /\ h_cmd' = cmd
          /\ expect_success' = es
          /\ IF Classify(cmd) = "invalid"
             THEN /\ h_pc' = "raised"
                  /\ h_err' = [tag |-> "neither_attach_nor_detach", cmd |-> cmd]
             ELSE /\ h_pc' = StepAfter("classify")
                  /\ h_err' = NoErr
    /\ h_calls' = h_calls + 1
    /\ h_before' = GuestCount
    /\ num_old' = 0 /\ num_new_expected' = 0
    /\ h_reads' = 0 /\ h_cmds' = 0 /\ h_asserted' = "none" /\ h_status' = -1 /\ h_polls' = 0
    /\ h_last_obs' = -1 /\ h_cmd_before_read' = FALSE
    /\ UNCHANGED <<attached, visible, h_prev, wait_vars, guard_vars,
                   net_vars, more_vars>>

\* num_old = number_of_devices(machine)
HotplugReadOld ==
    /\ h_pc = "read_old"
    /\ \E env \in RemoteEnv :
          LET r == number_of_devices(env)
          IN IF r.raised
             THEN /\ h_pc' = "raised"
                  /\ h_err' = [tag |-> r.tag, cmd |-> NoCmd]
                  /\ UNCHANGED num_old
             ELSE /\ h_pc' = StepAfter("read_old")
                  /\ num_old' = r.value
                  /\ UNCHANGED h_err
    /\ h_reads' = h_reads + 1
    /\ UNCHANGED <<attached, visible, h_cmd, expect_success, num_new_expected,
                   h_cmds, h_asserted, h_status, h_polls, h_last_obs, h_cmd_before_read,
                   h_before, h_prev, h_calls, wait_vars, guard_vars,
                   net_vars, more_vars>>

\* The match statement: machine.succeed(cmd) or machine.fail(cmd), which
\* raise when the exit status is not the expected one, then the assignment
\* of num_new_expected.
HotplugCommand ==
    /\ h_pc = "command"
    /\ \E st \in PossibleExit(h_cmd) :
          LET is_attach == Classify(h_cmd) = "attach"
              how == Asserted(is_attach, expect_success)
              ok == ExpectationMet(how, st)
          IN /\ h_asserted' = how
             /\ h_status' = st
             /\ attached' = AfterCommand(h_cmd, st)
             /\ IF ok
                THEN /\ h_pc' = StepAfter("command")
                     /\ num_new_expected' =
                            NumNewExpected(is_attach, expect_success, num_old)
                     /\ UNCHANGED h_err
                ELSE /\ h_pc' = "raised"
                     /\ h_err' = [tag |-> "command_expectation", cmd |-> h_cmd]
                     /\ UNCHANGED num_new_expected
    /\ h_cmds' = h_cmds + 1
    /\ h_cmd_before_read' = (h_reads = 0)
    /\ UNCHANGED <<visible, h_cmd, expect_success, num_old, h_reads, h_polls,
                   h_last_obs, h_before, h_prev, h_calls, wait_vars, guard_vars,
                   net_vars, more_vars>>

\* One iteration of wait_until_succeed inside
\* wait_for_guest_pci_device_enumeration: the predicate reads the device
\* count over ssh and compares it with num_new_expected.
HotplugPoll ==
    /\ h_pc = "poll"
    /\ h_polls < Attempts(PciEnumRetries)
    /\ \E env \in RemoteEnv :
          LET r == number_of_devices(env)
              res == IF r.raised THEN "raise"
                     ELSE IF CountMatches(r.value, num_new_expected) THEN "true"
                     ELSE "false"
              next == AfterEval("succeed", res)
          IN /\ h_last_obs' = r.value
             /\ h_pc' = CASE next = "returned" -> "returned"
                          [] next = "propagated" -> "raised"
                          [] next = "loop" -> "poll"
             /\ h_err' = IF next = "propagated"
                         THEN [tag |-> r.tag, cmd |-> NoCmd] ELSE h_err
    /\ h_polls' = h_polls + 1
    /\ UNCHANGED <<attached, visible, h_cmd, expect_success, num_old,
                   num_new_expected, h_reads, h_cmds, h_asserted, h_status,
                   h_cmd_before_read, h_before, h_prev, h_calls,
                   wait_vars, guard_vars,
                   net_vars, more_vars>>

\* The retry budget is used up: raise RuntimeError("function didn't succeed").
HotplugPollTimeout ==
    /\ h_pc = "poll"
    /\ h_polls >= Attempts(PciEnumRetries)
    /\ h_pc' = "raised"
    /\ h_err' = [tag |-> "timeout", cmd |-> NoCmd]
    /\ UNCHANGED <<attached, visible, h_cmd, expect_success, num_old,
                   num_new_expected, h_reads, h_cmds, h_asserted, h_status, h_polls,
                   h_last_obs, h_cmd_before_read, h_before, h_prev, h_calls,
                   wait_vars, guard_vars,
                   net_vars, more_vars>>

\* hotplug has returned; the scenario goes on to its next statement.
HotplugReturn ==
    /\ h_pc = "returned"
    /\ h_pc' = "idle"
    /\ h_prev' = [verb |-> Classify(h_cmd), dev |-> h_cmd.dev,
                  expect |-> expect_success, before |-> h_before]
    /\ UNCHANGED <<attached, visible, h_cmd, expect_success, num_old,
                   num_new_expected, h_reads, h_cmds, h_asserted, h_status, h_polls,
                   h_last_obs, h_cmd_before_read, h_err, h_before, h_calls,
                   wait_vars, guard_vars,
                   net_vars, more_vars>>

\* The guest enumerates one device the hypervisor has plugged, or drops one
\* it has unplugged.
GuestEnumerate ==
    /\ h_pc # "off"
    /\ \E d \in Devices :
          \/ d \in attached \ visible /\ visible' = visible \cup {d}
          \/ d \in visible \ attached /\ visible' = visible \ {d}
    /\ UNCHANGED <<attached, h_pc, h_cmd, expect_success, num_old,
                   num_new_expected, h_reads, h_cmds, h_asserted, h_status, h_polls,
                   h_last_obs, h_cmd_before_read, h_err, h_before, h_prev,
                   h_calls, wait_vars, guard_vars,
                   net_vars, more_vars>>

\* The scenario ends, by the exception hotplug raised or at its last
\* statement: tearDown destroys and undefines the domain, and the next
\* scenario defines and starts a fresh one and waits for its ssh.
TearDown ==
    /\ h_pc \in {"raised", "idle"}
    /\ h_calls > 0
    /\ attached' = {} /\ visible' = {} /\ h_pc' = "idle" /\ h_cmd' = NoCmd
    /\ expect_success' = FALSE /\ num_old' = 0 /\ num_new_expected' = 0
    /\ h_reads' = 0 /\ h_cmds' = 0 /\ h_asserted' = "none" /\ h_status' = -1 /\ h_polls' = 0
    /\ h_last_obs' = -1 /\ h_cmd_before_read' = FALSE /\ h_err' = NoErr
    /\ h_before' = 0 /\ h_prev' = NoCall /\ h_calls' = 0
    /\ UNCHANGED <<wait_vars, guard_vars,
                   net_vars, more_vars>>

NextHotplug ==
    \/ HotplugCall \/ HotplugReadOld \/ HotplugCommand \/ HotplugPoll
    \/ HotplugPollTimeout \/ HotplugReturn \/ GuestEnumerate \/ TearDown

SpecHotplug == InitHotplug /\ [][NextHotplug]_vars

\* C33: when the mutating command ended against the expectation (succeed on
\* a command that failed, fail on one that succeeded) hotplug has raised the
\* error of that command and has made no poll of the device count.
C33_NoPollAfterCommandError ==
    /\ (/\ h_cmds > 0
        /\ \/ (h_asserted = "succeed" /\ h_status # 0)
           \/ (h_asserted = "fail" /\ h_status = 0)) =>
          /\ h_pc = "raised"
          /\ h_err = [tag |-> "command_expectation", cmd |-> h_cmd]
          /\ h_polls = 0 /\ h_last_obs = -1
    /\ (h_err.tag = "command_expectation") =>
          h_pc = "raised" /\ h_polls = 0

\* Witness of C33: machine.fail raised because the attach command succeeded.
C33_Witness ==
    /\ h_pc = "raised" /\ h_asserted = "fail" /\ h_status = 0
    /\ h_err.tag = "command_expectation" /\ h_polls = 0
    /\ h_cmd.dev \in attached


\* The command of the running call is a recognized attach / detach command,
\* stated on the command line itself.
IsAttachCmd == h_cmd.prog = "virsh" /\ h_cmd.verb = "attach-"
IsDetachCmd == h_cmd.prog = "virsh" /\ h_cmd.verb = "detach-"

\* C4: a wait that has started ends only by observing the awaited predicate
\* value or by exhausting its retry budget: once the convergence wait of
\* hotplug has evaluated its predicate, the call is over only if the last
\* evaluation saw the expected count or all 20 evaluations are used up.
C4_WaitEndsOnlyByValueOrBudget ==
    (h_polls >= 1 /\ h_pc \in {"returned", "raised"}) =>
        \/ h_last_obs = num_new_expected
        \/ h_polls = PciEnumRetries

\* C5: in a hotplug call with a recognized command, num_old is read before
\* the command is issued, the command is issued at most once and exactly once
\* before any convergence poll, and every poll comes after the command.
C5_ReadCommandPollOrder ==
    (IsAttachCmd \/ IsDetachCmd) =>
        /\ h_reads <= 1 /\ h_cmds <= 1
        /\ (h_cmds = 1 => h_reads = 1 /\ ~h_cmd_before_read)
        /\ (h_polls >= 1 \/ h_pc \in {"poll", "returned"} => h_cmds = 1)
        /\ (h_pc = "command" => h_reads = 1 /\ h_cmds = 0 /\ h_polls = 0)

\* Witness of C5: a call that read the count, issued the command and then
\* polled several times before it returned.
C5_Witness ==
    /\ h_pc = "returned" /\ IsAttachCmd
    /\ h_reads = 1 /\ h_cmds = 1 /\ h_polls >= 2

\* C6: once the command has been run, it was run with machine.succeed exactly
\* when expect_success is true and with machine.fail exactly when it is
\* false, the call goes on only if the exit status was the asserted one, and
\* the expected count is num_old + 1 (attach, success), num_old - 1 (detach,
\* success) and num_old in the two expected-failure cases.
C6_ExpectedCountTable ==
    (h_cmds >= 1 /\ (IsAttachCmd \/ IsDetachCmd)) =>
        /\ h_asserted = (IF expect_success THEN "succeed" ELSE "fail")
        /\ (h_err.tag = "command_expectation" <=> (expect_success <=> h_status # 0))
        /\ (h_err.tag # "command_expectation" =>
               num_new_expected =
                   (IF ~expect_success THEN num_old
                    ELSE IF IsAttachCmd THEN num_old + 1
                    ELSE num_old - 1))

\* Witness of C6: a detach expected to succeed waits for num_old - 1.
C6_Witness ==
    /\ h_pc = "poll" /\ IsDetachCmd /\ expect_success
    /\ h_asserted = "succeed" /\ num_new_expected = num_old - 1

\* C7: hotplug has returned only if, after the command, one of at most 20
\* polls saw exactly the expected count; when 20 polls are made and the last
\* did not see it, the call can only raise.
C7_ReturnOnlyOnExpectedCount ==
    /\ h_polls <= PciEnumRetries
    /\ (h_pc = "returned" =>
           /\ h_cmds = 1
           /\ h_polls \in 1..PciEnumRetries
           /\ h_last_obs = num_new_expected)
    /\ (h_polls = PciEnumRetries /\ h_last_obs # num_new_expected =>
           /\ h_pc \in {"poll", "raised"}
           /\ (h_pc = "poll" => ENABLED HotplugPollTimeout /\ ~ENABLED HotplugPoll))

\* Witness of C7: the 20th poll was the one that saw the expected count.
C7_Witness ==
    /\ h_pc = "returned" /\ h_polls = PciEnumRetries
    /\ h_last_obs = num_new_expected

\* C8: a command that starts with neither `virsh attach-` nor `virsh detach-`
\* makes hotplug raise an error naming the command with no remote call made:
\* no device count read, no command run, no poll.
C8_InvalidRejectedBeforeRemote ==
    (h_cmd # NoCmd /\ ~IsAttachCmd /\ ~IsDetachCmd) =>
        /\ h_pc = "raised"
        /\ h_err = [tag |-> "neither_attach_nor_detach", cmd |-> h_cmd]
        /\ h_reads = 0 /\ h_cmds = 0 /\ h_polls = 0
        /\ h_status = -1 /\ h_last_obs = -1

\* Witness of C8: an attach command behind another first word is rejected.
C8_Witness ==
    /\ h_pc = "raised" /\ h_cmd.prog = "sudo" /\ h_cmd.verb = "attach-"
    /\ h_err.tag = "neither_attach_nor_detach"

\* C9: when hotplug has returned, the guest's device count is the expected
\* count and no enumeration is pending, so the count cannot change until a
\* new mutating command is issued (in the states before the next command the
\* guest has nothing left to enumerate).
C9_NoTransientReturn ==
    /\ (h_pc = "returned" =>
           /\ GuestCount = num_new_expected
           /\ visible = attached
           /\ ~ENABLED GuestEnumerate)
    /\ (h_pc \in {"idle", "read_old", "command"} => visible = attached)

\* Witness of C9: an attach that returned after the guest enumerated the
\* device late (at least one poll saw the old count).
C9_Witness ==
    /\ h_pc = "returned" /\ IsAttachCmd /\ expect_success
    /\ h_polls >= 2 /\ GuestCount = num_old + 1

\* The running call is a detach of the device that the previous call of the
\* scenario attached, and both have returned.
PairReturned ==
    /\ h_pc = "returned" /\ IsDetachCmd
    /\ h_prev.verb = "attach" /\ h_prev.dev = h_cmd.dev

\* C10 as claimed: after hotplug with an attach command and hotplug with the
\* matching detach command, both returned normally, the guest's device count
\* is what it was before the pair, whatever expect_success was in each call.
C10_RoundTripAnyExpectation ==
    PairReturned => GuestCount = h_prev.before

\* C10 as amended: the same, for pairs whose two calls were made with the
\* same expect_success.
C10_RoundTripSameExpectation ==
    (PairReturned /\ h_prev.expect = expect_success) =>
        GuestCount = h_prev.before

\* Witness of C10: an attach and the matching detach, both expected to
\* succeed, have returned.
C10_Witness ==
    /\ PairReturned /\ expect_success /\ h_prev.expect
    /\ GuestCount = h_prev.before

(***************************************************************************)
(* Host network discovery: get_local_192_168_net24_networks and            *)
(* ip_in_local_192_168_net24                                               *)
(*                                                                         *)
(* A Python str holding dot-separated decimal fields is written as the     *)
(* sequence of its fields (a field that is not a decimal number is -1), so *)
(* "192.168.1.5" is Str(<<192, 168, 1, 5>>) and "fe80::1" is Str(<<-1>>);  *)
(* parsing it as an IPv4 address succeeds only for four fields in 0..255.  *)
(***************************************************************************)
Str(f) == [t |-> "str", f |-> f]
PyNone == [t |-> "none", f |-> <<>>]

\* ipaddress.IPv4Address(s) / ipaddress.IPv4Network(s + "/24") accept s.
IsIPv4(s) ==
    /\ s.t = "str"
    /\ Len(s.f) = 4
    /\ \A i \in 1..4 : s.f[i] \in 0..255

\* IPv4Address.is_private, for the address ranges the model draws from.
IsPrivate(a) ==
    \/ a[1] = 10
    \/ a[1] = 127
    \/ a[1] = 172 /\ a[2] \in 16..31
    \/ a[1] = 192 /\ a[2] = 168
    \/ a[1] = 169 /\ a[2] = 254

\* target.exploded.startswith("192.168.")
StartsWith192_168(a) == a[1] = 192 /\ a[2] = 168

\* ipaddress.IPv4Network(f"{ip}/24", strict=False): host bits cleared.
IPv4Network24(a) == <<a[1], a[2], a[3], 0>>

\* network.network_address in ipaddress.IPv4Network("192.168.0.0/16")
In192_168_16(n) == n[1] = 192 /\ n[2] = 168

\* target in network, for a /24 network.
InNetwork24(a, n) == a[1] = n[1] /\ a[2] = n[2] /\ a[3] = n[3]

\* An element of addr_info; prefixlen -1 stands for a value that is not an int.
Addr(fam, local, prefix) ==
    [dict |-> TRUE, family |-> fam, local |-> local, prefixlen |-> prefix]
NotADict ==
    [dict |-> FALSE, family |-> "none", local |-> PyNone, prefixlen |-> -1]

AddrEntries ==
    { Addr("inet", Str(<<192, 168, 1, 5>>), 24),
      Addr("inet", Str(<<192, 168, 2, 9>>), 24),
      Addr("inet", Str(<<10, 0, 0, 5>>), 24),
      Addr("inet", Str(<<192, 168, 1, 5>>), 16),
      Addr("inet6", Str(<<-1>>), 64),
      Addr("inet", PyNone, 24),
      Addr("inet", Str(<<192, 168, 3, 1>>), -1),
      Addr("inet", Str(<<192, 168, 1>>), 24),
      NotADict }

SeqsUpTo(S, n) == UNION {[1..k -> S] : k \in 0..n}

\* An interface object of `ip -j a`: its addr_info is a list, or is not.
Ifaces(maxAddrs) ==
    {[list |-> TRUE, addr_info |-> a] : a \in SeqsUpTo(AddrEntries, maxAddrs)}
        \cup {[list |-> FALSE, addr_info |-> <<>>]}

HostConfigs(maxIfaces, maxAddrs) == SeqsUpTo(Ifaces(maxAddrs), maxIfaces)

\* The condition under which an address entry is turned into a network.
AddrSelected(addr) ==
    /\ addr.dict
    /\ addr.family = "inet"
    /\ addr.local.t = "str"
    /\ addr.prefixlen # -1
    /\ addr.prefixlen = 24

\* for addr in addr_info: append the entry's /24 network when it lies in
\* 192.168.0.0/16; IPv4Network raises ValueError on a string it cannot parse.
RECURSIVE AddrLoop(_, _)
AddrLoop(addr_info, networks) ==
    IF addr_info = <<>> THEN [exc |-> "none", networks |-> networks]
    ELSE LET addr == Head(addr_info)
         IN IF ~AddrSelected(addr) THEN AddrLoop(Tail(addr_info), networks)
            ELSE IF ~IsIPv4(addr.local)
                 THEN [exc |-> "ValueError", networks |-> networks]
            ELSE LET network == IPv4Network24(addr.local.f)
                 IN AddrLoop(Tail(addr_info),
                             IF In192_168_16(network)
                             THEN Append(networks, network)
                             ELSE networks)

\* for iface in interfaces: skip an addr_info that is not a list.
RECURSIVE IfaceLoop(_, _)
IfaceLoop(interfaces, networks) ==
    IF interfaces = <<>> THEN [exc |-> "none", networks |-> networks]
    ELSE LET iface == Head(interfaces)
         IN IF ~iface.list THEN IfaceLoop(Tail(interfaces), networks)
            ELSE LET r == AddrLoop(iface.addr_info, networks)
                 IN IF r.exc # "none" THEN r
                    ELSE IfaceLoop(Tail(interfaces), r.networks)

\* Order of IPv4Network objects of equal prefix length: by network address.
NetLess(m, n) ==
    \E i \in 1..4 : m[i] < n[i] /\ \A j \in 1..(i - 1) : m[j] = n[j]

RECURSIVE Insert(_, _)
Insert(n, s) ==
    IF s = <<>> THEN <<n>>
    ELSE IF NetLess(n, Head(s)) THEN <<n>> \o s
    ELSE <<Head(s)>> \o Insert(n, Tail(s))

\* sorted(networks)
RECURSIVE sorted(_)
sorted(s) == IF s = <<>> THEN <<>> ELSE Insert(Head(s), sorted(Tail(s)))

\* get_local_192_168_net24_networks(machine), where `ip -j a` on the machine
\* exits with status and prints interfaces.
get_local_192_168_net24_networks(status, interfaces) ==
    IF status # 0 THEN [exc |-> "AssertionError", networks |-> <<>>]
    ELSE LET r == IfaceLoop(interfaces, <<>>)
         IN IF r.exc # "none" THEN r
            ELSE [exc |-> "none", networks |-> sorted(r.networks)]

\* ip_in_local_192_168_net24(machine, ip): the exception or the value, and the
\* number of remote commands run.
ip_in_local_192_168_net24(ip, status, interfaces) ==
    IF ~IsIPv4(ip) THEN [exc |-> "ValueError", value |-> FALSE, remote |-> 0]
    ELSE IF ~IsPrivate(ip.f) \/ ~StartsWith192_168(ip.f)
         THEN [exc |-> "RuntimeError", value |-> FALSE, remote |-> 0]
    ELSE LET r == get_local_192_168_net24_networks(status, interfaces)
         IN [exc |-> r.exc,
             value |-> /\ r.exc = "none"
                       /\ \E i \in 1..Len(r.networks) :
                              InNetwork24(ip.f, r.networks[i]),
             remote |-> 1]

InitNetworks ==
    /\ k_status \in {0, 1}
    /\ k_interfaces \in HostConfigs(MaxIfaces, MaxAddrs)
    /\ k_out = NoNetworks
    /\ k_pc = "call"
    /\ WaitOff /\ GuardOff /\ HotplugOff /\ ReachOff /\ MoreOff

\* A call of get_local_192_168_net24_networks.
NetworksCall ==
    /\ k_pc = "call"
    /\ k_out' = get_local_192_168_net24_networks(k_status, k_interfaces)
    /\ k_pc' = "done"
    /\ UNCHANGED <<k_status, k_interfaces, wait_vars, guard_vars, hot_vars,
                   reach_vars, more_vars>>

NextNetworks == NetworksCall

SpecNetworks == InitNetworks /\ [][NextNetworks]_vars

\* All address entries of the machine's interfaces whose addr_info is a list.
AllAddrs(interfaces) ==
    UNION {{interfaces[i].addr_info[j] :
               j \in 1..Len(interfaces[i].addr_info)} :
           i \in {i \in 1..Len(interfaces) : interfaces[i].list}}

\* The networks the claim describes: of the IPv4 (family inet) addresses with
\* prefix length 24, those whose network lies inside 192.168.0.0/16.
ExpectedNetworks(interfaces) ==
    {IPv4Network24(a.local.f) :
        a \in {a \in AllAddrs(interfaces) :
                 /\ a.dict /\ a.family = "inet" /\ a.prefixlen = 24
                 /\ IsIPv4(a.local)
                 /\ a.local.f[1] = 192 /\ a.local.f[2] = 168}}

\* C16: when `ip -j a` succeeds, get_local_192_168_net24_networks returns
\* exactly the /24 networks of the inet addresses with prefix length 24 that
\* lie inside 192.168.0.0/16; every other entry, a malformed one included,
\* contributes nothing.
C16_ExactlyLocalNet24 ==
    (k_pc = "done" /\ k_status = 0) =>
        /\ k_out.exc = "none"
        /\ {k_out.networks[i] : i \in 1..Len(k_out.networks)}
               = ExpectedNetworks(k_interfaces)

(***************************************************************************)
(* Reachability waits: wait_for_host_shares_ipv4_network, wait_for_ping,   *)
(* wait_for_ssh and ssh                                                    *)
(*                                                                         *)
(* One call of one of the functions (s_entry) runs per behaviour.  Every   *)
(* remote command (machine.execute) returns; the host's interface data     *)
(* and the guest's answers are chosen anew at every command.               *)
(***************************************************************************)
\* Default retries of wait_for_host_shares_ipv4_network and of wait_for_ping.
HostNetRetries == 20
PingRetries == 200
RemoveCertDirCases == 2
NR_HUGEPAGES == 1024

Entries ==
    {"ip_in_local_192_168_net24", "wait_for_host_shares_ipv4_network",
     "wait_for_ping", "wait_for_ssh", "ssh"}

Targets ==
    { Str(<<192, 168, 1, 2>>), Str(<<192, 168, 2, 7>>),
      Str(<<10, 0, 0, 5>>), Str(<<8, 8, 8, 8>>), Str(<<192, 168, 1>>) }

\* Interface data a host-network check may see: no interface, or one
\* interface with at most one address entry.
ReachHostConfigs == HostConfigs(1, 1)

\* Mutation of NeedsPing: the probe made whatever ping_check says.
NeedsPing_Always(ping_check) == TRUE

\* ssh(): `if ping_check:`
NeedsPing(ping_check) == ping_check

\* Mutation of FirstStage: wait_for_ssh going straight to its SSH loop.
FirstStage_SshDirect(entry, ping_check) ==
    IF entry = "ip_in_local_192_168_net24" THEN "check"
    ELSE IF entry = "wait_for_ssh" THEN "ssh"
    ELSE IF entry = "ssh" /\ ~NeedsPing(ping_check) THEN "ssh"
    ELSE "net"

\* The first thing a call does: wait_for_ssh calls wait_for_ping, which calls
\* wait_for_host_shares_ipv4_network; ssh does so only with ping_check.
FirstStage(entry, ping_check) ==
    IF entry = "ip_in_local_192_168_net24" THEN "check"
    ELSE IF entry = "ssh" /\ ~NeedsPing(ping_check) THEN "ssh"
    ELSE "net"

\* retries of the host-network wait: the caller's argument, or the default
\* when wait_for_ping calls it.
NetBudget(entry, r) ==
    IF entry = "wait_for_host_shares_ipv4_network" THEN r ELSE HostNetRetries

\* retries of the ping loop: the caller's argument, 1 from ssh(), the default
\* from wait_for_ssh.
PingBudget(entry, r) ==
    IF entry = "wait_for_ping" THEN r
    ELSE IF entry = "ssh" THEN 1
    ELSE PingRetries

\* Where the call continues when a stage has succeeded.
AfterNet(entry) ==
    IF entry = "wait_for_host_shares_ipv4_network" THEN "returned" ELSE "ping"
AfterPing(entry) ==
    IF entry = "wait_for_ping" THEN "returned" ELSE "ssh"

\* Mutation of AfterSshFailure: the loop of wait_for_ssh without its
\* try/except.
AfterSshFailure_Raises(entry) == "raised"

\* Where the call continues when the sshpass command has failed and ssh()
\* has raised: in wait_for_ssh `except Exception` swallows the error and the
\* loop goes on, a direct ssh() call raises.
AfterSshFailure(entry) == IF entry = "ssh" THEN "raised" ELSE "ssh"

InitReach ==
    /\ s_entry \in Entries
    /\ s_ip \in Targets
    /\ s_retries \in 0..MaxTries
    /\ s_ping_check \in BOOLEAN
    /\ (s_entry \in {"ip_in_local_192_168_net24", "ssh"} => s_retries = 0)
    /\ (s_entry # "ssh" => s_ping_check = FALSE)
    /\ s_pc = FirstStage(s_entry, s_ping_check)
    /\ n_net = 0 /\ n_ping = 0 /\ n_ssh = 0 /\ n_remote = 0
    /\ s_net_ok = FALSE /\ s_ping_ok = FALSE
    /\ s_err = "none" /\ s_cause = "none" /\ s_ip_a = FALSE
    /\ s_value = "none"
    /\ WaitOff /\ GuardOff /\ HotplugOff /\ NetworksOff /\ MoreOff

\* One evaluation of the lambda in wait_until_succeed: a RuntimeError of the
\* check is caught by wait_for_host_shares_ipv4_network, which runs `ip a` and
\* raises its own error; any other exception leaves the call.
NetCheck ==
    /\ s_pc = "net"
    /\ n_net < Attempts(NetBudget(s_entry, s_retries))
    /\ \E st \in {0, 1}, cfg \in ReachHostConfigs :
         LET r == ip_in_local_192_168_net24(s_ip, st, cfg)
         IN /\ n_net' = n_net + 1
            /\ IF r.exc = "RuntimeError"
               THEN /\ s_pc' = "raised"
                    /\ s_err' = "HostNetError"
                    /\ s_cause' = "InvalidIP"
                    /\ s_ip_a' = TRUE
                    /\ n_remote' = n_remote + r.remote + 1
                    /\ UNCHANGED s_net_ok
               ELSE IF r.exc # "none"
               THEN /\ s_pc' = "raised"
                    /\ s_err' = r.exc
                    /\ n_remote' = n_remote + r.remote
                    /\ UNCHANGED <<s_cause, s_ip_a, s_net_ok>>
               ELSE /\ s_pc' = IF r.value THEN AfterNet(s_entry) ELSE "net"
                    /\ s_net_ok' = r.value
                    /\ n_remote' = n_remote + r.remote
                    /\ UNCHANGED <<s_err, s_cause, s_ip_a>>
    /\ UNCHANGED <<s_entry, s_ip, s_retries, s_ping_check, n_ping, n_ssh,
                   s_ping_ok, s_value, wait_vars, guard_vars, hot_vars,
                   networks_vars,
                   more_vars>>

\* wait_until_succeed ran out of retries: its RuntimeError is caught, `ip a`
\* is run and the error with its output is raised.
NetTimeout ==
    /\ s_pc = "net"
    /\ n_net >= Attempts(NetBudget(s_entry, s_retries))
    /\ s_pc' = "raised"
    /\ s_err' = "HostNetError"
    /\ s_cause' = "timeout"
    /\ s_ip_a' = TRUE
    /\ n_remote' = n_remote + 1
    /\ UNCHANGED <<s_entry, s_ip, s_retries, s_ping_check, n_net, n_ping,
                   n_ssh, s_net_ok, s_ping_ok, s_value, wait_vars, guard_vars,
                   hot_vars, networks_vars,
                   more_vars>>

\* One iteration of the loop of wait_for_ping: ping -c 1 -W 1.
PingAttempt ==
    /\ s_pc = "ping"
    /\ n_ping < Attempts(PingBudget(s_entry, s_retries))
    /\ \E status \in {0, 1} :
         /\ s_pc' = IF status = 0 THEN AfterPing(s_entry) ELSE "ping"
         /\ s_ping_ok' = (status = 0)
    /\ n_ping' = n_ping + 1
    /\ n_remote' = n_remote + 1
    /\ UNCHANGED <<s_entry, s_ip, s_retries, s_ping_check, n_net, n_ssh,
                   s_net_ok, s_err, s_cause, s_ip_a, s_value, wait_vars,
                   guard_vars, hot_vars, networks_vars,
                   more_vars>>

\* The loop of wait_for_ping is exhausted.
PingTimeout ==
    /\ s_pc = "ping"
    /\ n_ping >= Attempts(PingBudget(s_entry, s_retries))
    /\ s_pc' = "raised"
    /\ s_err' = "PingTimeout"
    /\ UNCHANGED <<s_entry, s_ip, s_retries, s_ping_check, n_net, n_ping,
                   n_ssh, n_remote, s_net_ok, s_ping_ok, s_cause, s_ip_a,
                   s_value, wait_vars, guard_vars, hot_vars, networks_vars,
                   more_vars>>

\* The sshpass command: the body of ssh() after the probe, or one iteration
\* of the loop of wait_for_ssh, whose `except Exception` swallows the failure.
SshAttempt ==
    /\ s_pc = "ssh"
    /\ s_entry = "wait_for_ssh" => n_ssh < Attempts(s_retries)
    /\ \E status \in {0, 255} :
         /\ s_pc' = IF status = 0 THEN "returned"
                    ELSE AfterSshFailure(s_entry)
         /\ s_err' = IF status # 0 /\ s_entry = "ssh" THEN "SshFailed"
                     ELSE s_err
    /\ n_ssh' = n_ssh + 1
    /\ n_remote' = n_remote + 1
    /\ UNCHANGED <<s_entry, s_ip, s_retries, s_ping_check, n_net, n_ping,
                   s_net_ok, s_ping_ok, s_cause, s_ip_a, s_value, wait_vars,
                   guard_vars, hot_vars, networks_vars,
                   more_vars>>

\* The loop of wait_for_ssh is exhausted.
SshTimeout ==
    /\ s_pc = "ssh"
    /\ s_entry = "wait_for_ssh"
    /\ n_ssh >= Attempts(s_retries)
    /\ s_pc' = "raised"
    /\ s_err' = "SshTimeout"
    /\ UNCHANGED <<s_entry, s_ip, s_retries, s_ping_check, n_net, n_ping,
                   n_ssh, n_remote, s_net_ok, s_ping_ok, s_cause, s_ip_a,
                   s_value, wait_vars, guard_vars, hot_vars, networks_vars,
                   more_vars>>

\* A direct call of ip_in_local_192_168_net24.
IpInLocalCall ==
    /\ s_pc = "check"
    /\ \E st \in {0, 1}, cfg \in ReachHostConfigs :
         LET r == ip_in_local_192_168_net24(s_ip, st, cfg)
         IN /\ s_pc' = IF r.exc = "none" THEN "returned" ELSE "raised"
            /\ s_err' = IF r.exc = "RuntimeError" THEN "InvalidIP" ELSE r.exc
            /\ s_value' = IF r.exc # "none" THEN "none"
                          ELSE IF r.value THEN "true" ELSE "false"
            /\ s_net_ok' = r.value
            /\ n_remote' = n_remote + r.remote
    /\ n_net' = n_net + 1
    /\ UNCHANGED <<s_entry, s_ip, s_retries, s_ping_check, n_ping, n_ssh,
                   s_ping_ok, s_cause, s_ip_a, wait_vars, guard_vars,
                   hot_vars, networks_vars,
                   more_vars>>

NextReach ==
    \/ NetCheck \/ NetTimeout
    \/ PingAttempt \/ PingTimeout
    \/ SshAttempt \/ SshTimeout
    \/ IpInLocalCall

SpecReach == InitReach /\ [][NextReach]_vars

\* The harness is a single thread that keeps running, and every remote
\* command returns: a call that can take a step takes it.
SpecReachFair == SpecReach /\ WF_vars(NextReach)

ReachDone == s_pc \in {"returned", "raised"}

\* C13: wait_for_ssh runs its stages in a fixed order: an SSH attempt is made
\* only after a ping was answered, a ping is sent only after a host-network
\* check found a local 192.168.x.0/24 network holding the target, and a stage
\* that fails (timeout or other error) is followed by no later stage.
C13_StagesInOrder ==
    s_entry = "wait_for_ssh" =>
        /\ (n_ssh > 0 => n_ping > 0 /\ s_ping_ok)
        /\ (n_ping > 0 => n_net > 0 /\ s_net_ok)
        /\ (s_err \in {"HostNetError", "ValueError", "AssertionError"} =>
                n_ping = 0 /\ n_ssh = 0)
        /\ (s_err = "PingTimeout" => n_ssh = 0)

\* Witness of C13: wait_for_ssh returned after two host-network checks, two
\* pings and two SSH attempts.
C13_Witness ==
    /\ s_entry = "wait_for_ssh" /\ s_pc = "returned"
    /\ n_net = 2 /\ n_ping = 2 /\ n_ssh = 2

\* C14: when every remote command returns, wait_for_ssh makes at most 20
\* host-network checks, 200 pings and `retries` SSH attempts, and it always
\* ends, returning or raising.
C14_WaitForSshTerminates ==
    /\ [](s_entry = "wait_for_ssh" =>
             /\ n_net <= HostNetRetries
             /\ n_ping <= PingRetries
             /\ n_ssh <= s_retries)
    /\ ((s_entry = "wait_for_ssh") ~> ReachDone)

\* Witness of C14: a guest that answers the 200th ping and never accepts an
\* SSH login: wait_for_ssh has raised after all `retries` attempts.
C14_Witness ==
    /\ s_entry = "wait_for_ssh" /\ s_pc = "raised" /\ s_err = "SshTimeout"
    /\ n_net = HostNetRetries /\ n_ping = PingRetries
    /\ s_retries >= 2 /\ n_ssh = s_retries

\* The target is not an IPv4 address, or not one in 192.168.0.0/16.
InvalidTarget == ~IsIPv4(s_ip) \/ ~StartsWith192_168(s_ip.f)

\* C15: on an invalid or non-192.168 target, ip_in_local_192_168_net24 and the
\* waits built on it never return normally, make at most one check, go on to
\* no ping and no SSH attempt, and run no remote command.
C15_InvalidRejectedAtOnce ==
    (/\ s_entry \in {"ip_in_local_192_168_net24",
                      "wait_for_host_shares_ipv4_network",
                      "wait_for_ping", "wait_for_ssh"}
     /\ InvalidTarget) =>
        /\ s_pc # "returned"
        /\ n_net <= 1
        /\ n_ping = 0 /\ n_ssh = 0
        /\ n_remote = 0

\* C17: ssh with ping_check=True sends exactly one ping before the SSH command
\* and does not run the SSH command unless that ping was answered; with
\* ping_check=False it goes straight to the SSH command, with no ping and no
\* host-network check.
C17_ProbeBeforeSsh ==
    s_entry = "ssh" =>
        /\ n_ssh <= 1
        /\ (s_ping_check =>
                /\ n_ping <= 1
                /\ (n_ssh > 0 => n_ping = 1 /\ s_ping_ok))
        /\ (~s_ping_check =>
                /\ n_ping = 0 /\ n_net = 0
                /\ (n_ssh = 0 => s_pc = "ssh")
                /\ n_remote = n_ssh)

\* Witness of C17: ssh with ping_check=True ran its command after the one
\* ping was answered.
C17_Witness ==
    /\ s_entry = "ssh" /\ s_ping_check /\ s_pc = "returned"
    /\ n_ping = 1 /\ s_ping_ok /\ n_ssh = 1

\* C18: wait_for_host_shares_ipv4_network makes at most `retries` checks and
\* returns normally iff a check found a local network holding the target;
\* otherwise it raises the RuntimeError that carries the output of `ip a`, and
\* it raises that error only after `retries` checks that found nothing.
C18_ReturnsIffNetworkFound ==
    (s_entry = "wait_for_host_shares_ipv4_network" /\ ReachDone) =>
        /\ n_net <= s_retries
        /\ (s_pc = "returned" <=> s_net_ok)
        /\ (s_pc = "raised" => s_err = "HostNetError" /\ s_ip_a)
        /\ (s_err = "HostNetError" =>
                n_net = s_retries /\ s_cause = "timeout")

\* C36: once the ping stage of wait_for_ssh has succeeded, a failed SSH
\* attempt never ends the call: it returns right after a successful attempt,
\* and it raises only the RuntimeError of the exhausted loop, after exactly
\* `retries` attempts that all failed.
C36_SshRetriedToBudget ==
    (s_entry = "wait_for_ssh" /\ s_ping_ok) =>
        /\ n_ssh <= s_retries
        /\ (s_pc = "returned" => n_ssh >= 1)
        /\ (s_pc = "raised" => s_err = "SshTimeout" /\ n_ssh = s_retries)
        /\ (s_pc \notin {"returned", "raised"} => s_pc = "ssh")

\* Witness of C36: wait_for_ssh with two retries raised after two failed
\* attempts.
C36_Witness ==
    /\ s_entry = "wait_for_ssh" /\ s_ping_ok /\ s_retries = 2
    /\ s_pc = "raised" /\ s_err = "SshTimeout" /\ n_ssh = 2

(***************************************************************************)
(* pci_devices_by_bdf(machine)                                             *)
(*                                                                         *)
(*     lines = ssh(machine, "lspci -n | awk '/^[0-9a-f]{2}:[0-9a-f]{2}     *)
(*                 \\.[0-9]/{bdf=$1}{class=$3} {print bdf \",\" class}'")  *)
(*     for line in lines.splitlines():                                     *)
(*         bdf, device_class = line.split(",")                             *)
(*         out[bdf] = device_class                                         *)
(*                                                                         *)
(* A line of `lspci -n` is given by whether it starts with a BDF and by    *)
(* its first and third field.                                              *)
(***************************************************************************)
LspciLine(prefix, f1, f3) == [bdf_prefix |-> prefix, f1 |-> f1, f3 |-> f3]

LspciLines ==
    { LspciLine(TRUE, "00:04.0", "1af4:1041"),
      LspciLine(TRUE, "00:05.0", "1af4:1042"),
      LspciLine(TRUE, "00:05.0", "1af4:1044"),
      LspciLine(FALSE, "pcilib:", "open"),
      LspciLine(FALSE, "", "") }

\* A map (Python dict) with no entry, and the assignment m[k] = v.
EmptyMap == [k \in {} |-> ""]
MapSet(m, k, v) ==
    [x \in DOMAIN m \cup {k} |-> IF x = k THEN v ELSE m[x]]

\* The awk program, from the line after `bdf` was last set: a line with a BDF
\* prefix sets bdf to its first field, every line sets class to its third
\* field, and every line prints bdf "," class.
RECURSIVE Awk(_, _)
Awk(lines, bdf) ==
    IF lines = <<>> THEN <<>>
    ELSE LET l == Head(lines)
             b == IF l.bdf_prefix THEN l.f1 ELSE bdf
         IN <<[bdf |-> b, class |-> l.f3]>> \o Awk(Tail(lines), b)

\* for line in lines.splitlines(): out[bdf] = device_class
RECURSIVE SnapshotLoop(_, _)
SnapshotLoop(printed, out) ==
    IF printed = <<>> THEN out
    ELSE SnapshotLoop(Tail(printed),
                      MapSet(out, Head(printed).bdf, Head(printed).class))

\* pci_devices_by_bdf: ssh() raises RuntimeError when its command fails.
pci_devices_by_bdf(status, lines) ==
    IF status # 0 THEN [exc |-> "RuntimeError", map |-> EmptyMap]
    ELSE [exc |-> "none", map |-> SnapshotLoop(Awk(lines, ""), EmptyMap)]

InitPci ==
    /\ p_lines \in SeqsUpTo(LspciLines, MaxLines)
    /\ p_ssh_status \in {0, 255}
    /\ p_out = NoSnapshot
    /\ p_pc = "call"
    /\ PciRestOff

\* A call of pci_devices_by_bdf.
PciCall ==
    /\ p_pc = "call"
    /\ p_out' = pci_devices_by_bdf(p_ssh_status, p_lines)
    /\ p_pc' = "done"
    /\ UNCHANGED <<p_lines, p_ssh_status, wait_vars, guard_vars, hot_vars,
                   net_vars, pci_rest>>

NextPci == PciCall

SpecPci == InitPci /\ [][NextPci]_vars

\* The lines of the enumeration output that start with a BDF.
BdfLines(lines) == {i \in 1..Len(lines) : lines[i].bdf_prefix}

\* The snapshot the claim describes: one entry per BDF of a line with a BDF
\* prefix, holding the identity of the last such line for that BDF.
ExpectedSnapshot(lines) ==
    [b \in {lines[i].f1 : i \in BdfLines(lines)} |->
        LET last == CHOOSE i \in BdfLines(lines) :
                        /\ lines[i].f1 = b
                        /\ \A j \in BdfLines(lines) :
                               lines[j].f1 = b => j <= i
        IN lines[last].f3]

\* C22: when the enumeration command succeeds, pci_devices_by_bdf returns the
\* snapshot built from the lines that start with a BDF: a line without a BDF
\* prefix adds no entry and changes no entry, and empty output gives the empty
\* map without raising.
C22_NoiseLinesIgnored ==
    (p_pc = "done" /\ p_ssh_status = 0) =>
        /\ p_out.exc = "none"
        /\ p_out.map = ExpectedSnapshot(p_lines)

(***************************************************************************)
(* parse_devices_from_dom_def(machine, path)                               *)
(*                                                                         *)
(* A domain definition document is given by where its <devices> element    *)
(* sits (child of the root in the persistent definition, one level deeper  *)
(* in the transient one) and by its device elements.  A device element is  *)
(* given by its tag, the attributes and sub-elements the function reads    *)
(* ("none": the element is absent) and its <address> element.  The         *)
(* identity string is written as the sequence of its ":"-separated parts.  *)
(***************************************************************************)
Paths == {"persistent", "transient"}

PciAddress(slot, function) ==
    [type |-> "pci", bus |-> "0x00", slot |-> slot, function |-> function]
CcidAddress(slot) ==
    [type |-> "ccid", bus |-> "", slot |-> slot, function |-> ""]
NoAddress == [type |-> "none", bus |-> "", slot |-> "", function |-> ""]

Device(tag, type, source, mac, target, backend, address) ==
    [tag |-> tag, type |-> type, source |-> source, mac |-> mac,
     target |-> target, backend |-> backend, address |-> address]

DomDevices ==
    { Device("disk", "file", "vdb.img", "none", "vdb", "none",
             PciAddress("0x05", "0x0")),
      Device("disk", "file", " vdc.img ", "none", "vdc", "none",
             PciAddress("0x06", "0x0")),
      Device("interface", "ethernet", "none", "52:54:00:e5:b8:01", "tap1",
             "none", PciAddress("0x07", "0x0")),
      Device("rng", "none", "none", "none", "none", " /dev/urandom ",
             PciAddress("0x08", "0x0")),
      Device("disk", "file", "cd.img", "none", "sda", "none", NoAddress),
      Device("smartcard", "none", "none", "none", "none", "none",
             CcidAddress("0")),
      Device("disk", "file", "vdd.img", "none", "vdd", "none",
             PciAddress("", "0x0")),
      Device("disk", "file", "vde.img", "none", "vde", "none",
             PciAddress("0x05", "0x1")) }

\* str.strip(), for the strings of the model.
Strip(s) ==
    IF s = " vdc.img " THEN "vdc.img"
    ELSE IF s = " /dev/urandom " THEN "/dev/urandom"
    ELSE s

\* value += ":" + part, when the sub-element the part is read from exists.
AddPart(value, part) == IF part = "none" THEN value ELSE Append(value, part)

\* The identification string of a device: `match device.tag`.
DeviceValue(device) ==
    IF device.tag = "disk"
    THEN AddPart(AddPart(<<device.tag>>, Strip(device.source)),
                 Strip(device.target))
    ELSE IF device.tag = "interface"
    THEN AddPart(AddPart(Append(<<device.tag>>, device.type), device.mac),
                 Strip(device.target))
    ELSE IF device.tag = "rng"
    THEN AddPart(<<device.tag>>, Strip(device.backend))
    ELSE <<device.tag>>

\* Mutation of HasPciSlot: the type of the address not looked at.
HasPciSlot_AnyType(address) == address.type # "none" /\ address.slot # ""

\* The device gets an entry: its address element exists, has type "pci" and
\* a non-empty slot.
HasPciSlot(address) ==
    /\ address.type # "none"
    /\ address.type = "pci"
    /\ address.slot # ""

\* Mutation of FindDevices: root.find("devices"), direct children only.
FindDevices_DirectChild(doc) ==
    IF doc.devices_at = "child" THEN doc.devices ELSE <<>>

\* root.find(".//devices") or []: the device elements at any depth.
FindDevices(doc) ==
    IF doc.devices_at = "none" THEN <<>> ELSE doc.devices

\* Mutation of FreshResult: the dict of the call before used again.
FreshResult_Kept(previous) == previous

\* result = dict(), whatever the call before returned.
FreshResult(previous) == [k \in {} |-> <<>>]

\* for device in ...: result[slot] = value
RECURSIVE DeviceLoop(_, _)
DeviceLoop(devices, result) ==
    IF devices = <<>> THEN result
    ELSE LET device == Head(devices)
         IN DeviceLoop(Tail(devices),
                       IF HasPciSlot(device.address)
                       THEN MapSet(result, device.address.slot,
                                   DeviceValue(device))
                       ELSE result)

\* parse_devices_from_dom_def, where `cat path` exits with status and prints
\* doc; previous is the dict the call before returned.
parse_devices_from_dom_def(status, doc, previous) ==
    IF status # 0 THEN [exc |-> "RuntimeError", map |-> FreshResult(previous)]
    ELSE [exc |-> "none",
          map |-> DeviceLoop(FindDevices(doc), FreshResult(previous))]

\* The transient definition of a running domain: the devices of the
\* persistent one, or those without one device that was detached transiently.
WithoutDevice(devices, i) ==
    [j \in 1..(Len(devices) - 1) |->
        IF j < i THEN devices[j] ELSE devices[j + 1]]

TransientOf(devices) ==
    {devices} \cup {WithoutDevice(devices, i) : i \in 1..Len(devices)}

NotSeen == [n |-> 0, map |-> <<>>]

InitDom ==
    /\ \E devices \in SeqsUpTo(DomDevices, MaxDomDevices) :
         \E transient \in TransientOf(devices) :
            x_docs = [path \in Paths |->
                        IF path = "persistent"
                        THEN [devices_at |-> "child", devices |-> devices]
                        ELSE [devices_at |-> "nested",
                              devices |-> transient]]
    /\ x_last = NoParse
    /\ x_seen = [path \in Paths |-> NotSeen]
    /\ x_calls = 0
    /\ DomRestOff

\* A call of parse_devices_from_dom_def on one of the two definitions.
ParseCall ==
    /\ x_calls < MaxParses
    /\ \E path \in Paths, status \in {0, 1} :
         LET r == parse_devices_from_dom_def(status, x_docs[path], x_last.map)
         IN /\ x_last' = [path |-> path, exc |-> r.exc, map |-> r.map]
            /\ x_seen' = IF r.exc # "none" THEN x_seen
                         ELSE [x_seen EXCEPT ![path] =
                                 [n |-> @.n + 1,
                                  map |-> IF @.n = 0 THEN r.map ELSE @.map]]
    /\ x_calls' = x_calls + 1
    /\ UNCHANGED <<x_docs, wait_vars, guard_vars, hot_vars, net_vars,
                   dom_rest>>

NextDom == ParseCall

SpecDom == InitDom /\ [][NextDom]_vars

\* C23: a successful parse of a definition returns the map that the first
\* successful parse of the same, unchanged definition returned, whatever
\* calls were made in between.
C23_ParseDeterministic ==
    (x_last.path # "none" /\ x_last.exc = "none") =>
        x_last.map = x_seen[x_last.path].map

\* Witness of C23: the transient definition was parsed, then the persistent
\* one, which gives another map, then the transient one again.
C23_Witness ==
    /\ x_calls = 3 /\ x_last.path = "transient" /\ x_last.exc = "none"
    /\ x_seen["transient"].n = 2 /\ x_seen["persistent"].n = 1
    /\ x_seen["persistent"].map # x_seen["transient"].map
    /\ x_last.map # FreshResult(x_last.map)

\* The devices of the definition parsed last that carry a PCI address with a
\* non-empty slot.
EligibleDevices ==
    LET devices == x_docs[x_last.path].devices
    IN {i \in 1..Len(devices) :
          /\ devices[i].address.type = "pci"
          /\ devices[i].address.slot # ""}

LastInSlot(slot) ==
    LET devices == x_docs[x_last.path].devices
        S == {i \in EligibleDevices : devices[i].address.slot = slot}
    IN CHOOSE i \in S : \A j \in S : j <= i

KeysOnlyIn(a, b) == DOMAIN a \ DOMAIN b

\* The addresses both maps hold with differing identity strings.
Mismatched(a, b) == {k \in DOMAIN a \cap DOMAIN b : a[k] # b[k]}

\* Both definitions list the same devices.
Synchronized ==
    x_docs["persistent"].devices = x_docs["transient"].devices

\* C25: when the persistent and the transient definition list the same
\* devices, the maps parsed from them have no address in only one of them
\* and no address with differing identities.
C25_SynchronizedDiffEmpty ==
    (/\ x_calls > 0 /\ Synchronized
     /\ x_seen["persistent"].n > 0 /\ x_seen["transient"].n > 0) =>
        LET p == x_seen["persistent"].map
            t == x_seen["transient"].map
        IN /\ KeysOnlyIn(p, t) = {}
           /\ KeysOnlyIn(t, p) = {}
           /\ Mismatched(p, t) = {}

\* Witness of C25: both definitions hold the same two devices at PCI
\* addresses and both were parsed.
C25_Witness ==
    /\ x_calls > 0 /\ Synchronized
    /\ x_seen["persistent"].n > 0 /\ x_seen["transient"].n > 0
    /\ Cardinality(DOMAIN x_seen["persistent"].map) = 2
    /\ Cardinality(DOMAIN x_seen["transient"].map) = 2

(***************************************************************************)
(* LibvirtTestsBase.run / save_logs / save_machine_log                     *)
(*                                                                         *)
(* The test cases of a suite run one after the other on one result object. *)
(* run() of each test case replaces result.addError and result.addFailure  *)
(* by a wrapper around what it finds there, so after the n-th run() a      *)
(* report passes through n wrappers, each calling save_logs before the     *)
(* one below it, and reaches the result's own method last.                 *)
(***************************************************************************)
LogMachines == {"controllerVM", "computeVM"}
LogFiles == <<"/var/log/libvirt/ch/testvm.log", "/var/log/libvirt/libvirtd.log">>

\* [m for m in [self.controllerVM, self.computeVM] if m is not None]
ConfiguredMachines(machines) ==
    LET all == <<"controllerVM", "computeVM">>
    IN SelectSeq(all, LAMBDA m : m \in machines)

\* The copies one machine gets: the hypervisor log, then the libvirtd log.
MachineCopies(m) ==
    <<[machine |-> m, log |-> LogFiles[1]], [machine |-> m, log |-> LogFiles[2]]>>

RECURSIVE CopiesOf(_)
CopiesOf(machines) ==
    IF machines = <<>> THEN <<>>
    ELSE MachineCopies(Head(machines)) \o CopiesOf(Tail(machines))

\* The copies save_logs makes: none without DBG_LOG_DIR.
save_logs(env, machines) ==
    IF ~env THEN <<>> ELSE CopiesOf(ConfiguredMachines(machines))

\* Mutation of save_machine_log: the exception of the copy is not caught.
save_machine_log_Propagates(raises) == raises

\* save_machine_log raises: never, `except Exception: pass`.
save_machine_log(raises) == FALSE

InitLogs ==
    /\ l_env \in BOOLEAN
    /\ l_machines \in SUBSET LogMachines
    /\ l_depth = 0
    /\ l_pc = "idle"
    /\ l_kind = "none"
    /\ l_level = 0
    /\ l_todo = <<>>
    /\ l_copies = {}
    /\ l_raised = FALSE
    /\ l_reports = 0
    /\ l_recorded = 0
    /\ l_saves = 0
    /\ LogsRestOff

\* run(result): the wrappers are installed, the test case starts.
LogsRun ==
    /\ l_pc = "idle"
    /\ l_depth < MaxTests
    /\ l_depth' = l_depth + 1
    /\ l_pc' = "body"
    /\ l_kind' = "none"
    /\ l_copies' = {}
    /\ l_raised' = FALSE
    /\ l_saves' = 0
    /\ UNCHANGED <<l_env, l_machines, l_level, l_todo, l_reports, l_recorded,
                   wait_vars, guard_vars, hot_vars, net_vars, logs_rest>>

\* unittest reports an error or a failure of the running test case:
\* result.addError / result.addFailure, the outermost wrapper.
LogsReport ==
    /\ l_pc = "body"
    /\ l_reports < MaxReports
    /\ \E kind \in {"error", "failure"} : l_kind' = kind
    /\ l_reports' = l_reports + 1
    /\ l_level' = l_depth
    /\ l_todo' = save_logs(l_env, l_machines)
    /\ l_copies' = {}
    /\ l_raised' = FALSE
    /\ l_pc' = "save"
    /\ l_saves' = 1
    /\ UNCHANGED <<l_env, l_machines, l_depth, l_recorded,
                   wait_vars, guard_vars, hot_vars, net_vars, logs_rest>>

\* save_machine_log: machine.copy_from_vm raises or not.
LogsCopy ==
    /\ l_pc = "save"
    /\ l_todo # <<>>
    /\ \E raises \in BOOLEAN :
         /\ l_raised' = (l_raised \/ raises)
         /\ IF save_machine_log(raises)
            THEN l_pc' = "aborted" /\ l_todo' = <<>>
            ELSE l_pc' = l_pc /\ l_todo' = Tail(l_todo)
    /\ l_copies' = l_copies \cup
                     {[machine |-> Head(l_todo).machine,
                       log |-> Head(l_todo).log, level |-> l_level]}
    /\ UNCHANGED <<l_env, l_machines, l_depth, l_kind, l_level, l_reports,
                   l_recorded, l_saves,
                   wait_vars, guard_vars, hot_vars, net_vars, logs_rest>>

\* save_logs returned: original_addError / original_addFailure, which is the
\* wrapper below or the method of the result.
LogsOriginal ==
    /\ l_pc = "save"
    /\ l_todo = <<>>
    /\ IF l_level > 1
       THEN /\ l_level' = l_level - 1
            /\ l_todo' = save_logs(l_env, l_machines)
            /\ l_saves' = l_saves + 1
            /\ UNCHANGED <<l_pc, l_recorded>>
       ELSE /\ l_level' = 0
            /\ l_recorded' = l_recorded + 1
            /\ l_pc' = "body"
            /\ UNCHANGED <<l_todo, l_saves>>
    /\ UNCHANGED <<l_env, l_machines, l_depth, l_kind, l_copies, l_raised,
                   l_reports,
                   wait_vars, guard_vars, hot_vars, net_vars, logs_rest>>

\* super().run(result) returns.
LogsEnd ==
    /\ l_pc = "body"
    /\ l_pc' = "idle"
    /\ UNCHANGED <<l_env, l_machines, l_depth, l_kind, l_level, l_todo,
                   l_copies, l_raised, l_reports, l_recorded, l_saves,
                   wait_vars, guard_vars, hot_vars, net_vars, logs_rest>>

NextLogs == LogsRun \/ LogsReport \/ LogsCopy \/ LogsOriginal \/ LogsEnd

SpecLogs == InitLogs /\ [][NextLogs]_vars

\* C26: no copy raising stops a report; a report is recorded only after a copy
\* of both log files from every configured machine was attempted when
\* DBG_LOG_DIR is set, every report that finished is recorded, and without
\* DBG_LOG_DIR no copy is ever attempted.
C26_LogsSavedOnReport ==
    /\ l_pc # "aborted"
    /\ (l_pc \in {"body", "idle"}) => l_recorded = l_reports
    /\ (l_pc = "body" /\ l_kind # "none" /\ l_env) =>
          \A m \in l_machines : \A i \in 1..Len(LogFiles) :
             \E c \in l_copies : c.machine = m /\ c.log = LogFiles[i]
    /\ (l_pc # "off" /\ ~l_env) => l_copies = {}

\* Witness of C26: with DBG_LOG_DIR set and both machines configured a
\* failure was recorded although a copy raised.
C26_Witness ==
    /\ l_pc = "body" /\ l_kind = "failure" /\ l_env
    /\ l_machines = LogMachines
    /\ l_raised
    /\ l_recorded = l_reports /\ l_recorded > 0
    /\ Cardinality(l_copies) >= 4

\* C32: a report made to the shared result, however many test cases ran on
\* it before, has caused one save_logs invocation and one record in the result
\* when it is over.
C32_OneSavePerReport ==
    (l_pc = "body" /\ l_kind # "none") =>
        /\ l_saves = 1
        /\ l_recorded = l_reports


(***************************************************************************)
(* test_live_migration_tls_without_certificates                            *)
(*                                                                         *)
(* Every iteration of the loop runs three with-blocks: certificates        *)
(* removed on both machines, on the controller only, on the compute        *)
(* machine only.  Each command sent to a machine may raise.                *)
(***************************************************************************)
TlsBlocks == << <<"controllerVM", "computeVM">>, <<"controllerVM">>,
                <<"computeVM">> >>

\* The statements of the body of a with-block: the migration that has to
\* fail, wait_for_ssh and the two virsh list checks.
TlsBodySteps == <<"migrate", "wait_for_ssh", "list_controller", "list_compute">>

\* remove_certificates: mktemp -d raises or the mv raises (nothing moved),
\* the rm -rf raises (certificates moved), or it returns the directory.
RemoveOutcomes == {"returned", "raised_before_mv", "raised_after_mv"}

InitTls ==
    /\ t_iter = 1
    /\ t_block = 1
    /\ t_pc = "remove"
    /\ t_idx = 1
    /\ t_guards = <<>>
    /\ t_exc = "none"
    /\ t_pending = {}
    /\ TlsRestOff

\* reset_certs_x = partial(reset_certs, remove_certs(x)), for the next
\* machine of the block.
TlsRemove ==
    /\ t_pc = "remove"
    /\ LET m == TlsBlocks[t_block][t_idx]
       IN \E outcome \in RemoveOutcomes :
            /\ t_pending' = IF outcome = "raised_before_mv" THEN t_pending
                            ELSE t_pending \cup {m}
            /\ IF outcome # "returned"
               THEN /\ t_pc' = "ended" /\ t_exc' = "remove_certificates"
                    /\ UNCHANGED t_idx
               ELSE /\ UNCHANGED t_exc
                    /\ IF t_idx < Len(TlsBlocks[t_block])
                       THEN t_idx' = t_idx + 1 /\ UNCHANGED t_pc
                       ELSE t_idx' = 1 /\ t_pc' = "enter"
    /\ UNCHANGED <<t_iter, t_block, t_guards,
                   wait_vars, guard_vars, hot_vars, net_vars, tls_rest>>

\* with (CommandGuard(...) as _, ...): the guards of the block are created
\* and entered, in the order written.
TlsEnter ==
    /\ t_pc = "enter"
    /\ t_guards' = TlsBlocks[t_block]
    /\ t_pc' = "body"
    /\ t_idx' = 1
    /\ UNCHANGED <<t_iter, t_block, t_exc, t_pending,
                   wait_vars, guard_vars, hot_vars, net_vars, tls_rest>>

\* The next statement of the body.
TlsBody ==
    /\ t_pc = "body"
    /\ \E raises \in BOOLEAN :
         IF raises
         THEN t_exc' = TlsBodySteps[t_idx] /\ t_pc' = "exit" /\ t_idx' = 0
         ELSE /\ UNCHANGED t_exc
              /\ IF t_idx < Len(TlsBodySteps)
                 THEN t_idx' = t_idx + 1 /\ UNCHANGED t_pc
                 ELSE t_idx' = 0 /\ t_pc' = "exit"
    /\ UNCHANGED <<t_iter, t_block, t_guards, t_pending,
                   wait_vars, guard_vars, hot_vars, net_vars, tls_rest>>

\* __exit__ of the guard entered last: reset_certs runs and may raise.
TlsExit ==
    /\ t_pc = "exit"
    /\ t_guards # <<>>
    /\ LET m == t_guards[Len(t_guards)]
       IN /\ t_pending' = t_pending \ {m}
          /\ t_guards' = SubSeq(t_guards, 1, Len(t_guards) - 1)
    /\ \E cleanup_raises \in BOOLEAN :
         t_exc' = IF cleanup_raises THEN "reset_certs"
                  ELSE IF ExitSuppresses(t_exc) THEN "none" ELSE t_exc
    /\ UNCHANGED <<t_iter, t_block, t_pc, t_idx,
                   wait_vars, guard_vars, hot_vars, net_vars, tls_rest>>

\* The with-statement is left: an exception in flight ends the test method.
TlsLeave ==
    /\ t_pc = "exit"
    /\ t_guards = <<>>
    /\ IF t_exc # "none"
       THEN t_pc' = "ended" /\ UNCHANGED t_idx
       ELSE t_pc' = "check" /\ t_idx' = 1
    /\ UNCHANGED <<t_iter, t_block, t_guards, t_exc, t_pending,
                   wait_vars, guard_vars, hot_vars, net_vars, tls_rest>>

\* check_certificates for the next machine of the block, then the next block.
TlsCheck ==
    /\ t_pc = "check"
    /\ \E raises \in BOOLEAN :
         IF raises
         THEN /\ t_exc' = "check_certificates" /\ t_pc' = "ended"
              /\ UNCHANGED <<t_idx, t_block, t_iter>>
         ELSE /\ UNCHANGED t_exc
              /\ IF t_idx < Len(TlsBlocks[t_block])
                 THEN t_idx' = t_idx + 1 /\ UNCHANGED <<t_pc, t_block, t_iter>>
                 ELSE IF t_block < Len(TlsBlocks)
                 THEN /\ t_block' = t_block + 1 /\ t_idx' = 1
                      /\ t_pc' = "remove" /\ UNCHANGED t_iter
                 ELSE IF t_iter < RemoveCertDirCases
                 THEN /\ t_iter' = t_iter + 1 /\ t_block' = 1 /\ t_idx' = 1
                      /\ t_pc' = "remove"
                 ELSE /\ t_pc' = "ended"
                      /\ UNCHANGED <<t_idx, t_block, t_iter>>
    /\ UNCHANGED <<t_guards, t_pending,
                   wait_vars, guard_vars, hot_vars, net_vars, tls_rest>>

NextTls ==
    TlsRemove \/ TlsEnter \/ TlsBody \/ TlsExit \/ TlsLeave \/ TlsCheck

SpecTls == InitTls /\ [][NextTls]_vars

\* C27: when the test method has ended, reset_certs has run for every machine
\* whose certificates remove_certificates moved away, whatever step raised.
C27_CertsAlwaysReset ==
    (t_pc = "ended") => t_pending = {}

(***************************************************************************)
(* teardownTestControllerVM / teardownTestComputeVM                        *)
(*                                                                         *)
(* A teardown function is a straight line of steps.  Machine.execute       *)
(* returns the exit status, Machine.succeed raises when the command exits  *)
(* non-zero, Machine.fail raises when it exits zero; an exception ends the *)
(* function.  A command of the form `... || true` exits zero.              *)
(***************************************************************************)
Step(name, method) == [name |-> name, method |-> method]

\* Mutation of TeardownSteps: the assertion on the journal status made as
\* soon as the journal is sampled.
TeardownSteps_AssertEarly(vm) ==
    <<Step("name_check", "raise"), Step("restart", "execute"),
      Step("journal", "execute"), Step("assert", "assertNotEqual"),
      Step("destroy", "execute"), Step("undefine", "execute"),
      Step("xml_run", "fail"), Step("xml_lib", "fail"),
      Step("mv_vmm", "succeed_or_true"), Step("mv_serial", "succeed_or_true"),
      Step("rm_expect", "succeed")>>
    \o (IF vm = "controllerVM" THEN <<Step("image_reset", "succeed")>>
        ELSE <<>>)

\* The steps of the teardown function of vm, in the order written.
TeardownSteps(vm) ==
    <<Step("name_check", "raise"), Step("restart", "execute"),
      Step("journal", "execute"), Step("destroy", "execute"),
      Step("undefine", "execute"), Step("xml_run", "fail"),
      Step("xml_lib", "fail"), Step("mv_vmm", "succeed_or_true"),
      Step("mv_serial", "succeed_or_true"), Step("rm_expect", "succeed")>>
    \o (IF vm = "controllerVM" THEN <<Step("image_reset", "succeed")>>
        ELSE <<>>)
    \o <<Step("assert", "assertNotEqual")>>

\* The steps of initialControllerVMSetup / initialComputeVMSetup.
InitialSteps(vm) ==
    <<Step("name_check", "raise"), Step("wait_for_unit", "succeed")>>
    \o (IF vm = "controllerVM"
        THEN <<Step("cp_nixos", "succeed"), Step("chmod_nixos", "succeed"),
               Step("cp_cirros", "succeed"), Step("chmod_cirros", "succeed")>>
        ELSE <<>>)
    \o <<Step("mkdir_pool", "succeed"), Step("ssh_peer", "succeed"),
          Step("pool_define", "succeed"), Step("pool_start", "succeed")>>
    \o (IF vm = "controllerVM" THEN <<Step("net_create", "succeed")>>
        ELSE <<>>)

\* The steps of setupTestControllerVM / setupTestComputeVM.
SetupSteps(vm) ==
    <<Step("name_check", "raise"), Step("log_outputs", "succeed"),
      Step("daemon_timeout", "succeed"), Step("marker", "succeed")>>

\* The steps of the role-bound function fn of vm.
RoleSteps(fn, vm) ==
    IF fn = "initial" THEN InitialSteps(vm)
    ELSE IF fn = "setupTest" THEN SetupSteps(vm)
    ELSE TeardownSteps(vm)

\* The exit statuses the command of a step can have.
Statuses(method) == IF method = "succeed_or_true" THEN {0} ELSE {0, 1}

\* Mutation of StepRaises: the name of the machine is not checked.
StepRaises_NameUnchecked(method, status) ==
    IF method \in {"succeed", "succeed_or_true"}
    THEN (IF status # 0 THEN "command" ELSE "none")
    ELSE IF method = "fail" THEN (IF status = 0 THEN "command" ELSE "none")
    ELSE IF method = "assertNotEqual"
    THEN (IF status = 0 THEN "AssertionError" ELSE "none")
    ELSE "none"

\* The exception a step raises: status is the exit status of its command
\* (for the name check: 1 when the name is not the expected one; for the
\* assertion: the journal status sampled before).
StepRaises(method, status) ==
    IF method = "raise" THEN (IF status # 0 THEN "RuntimeError" ELSE "none")
    ELSE IF method \in {"succeed", "succeed_or_true"}
    THEN (IF status # 0 THEN "command" ELSE "none")
    ELSE IF method = "fail" THEN (IF status = 0 THEN "command" ELSE "none")
    ELSE IF method = "assertNotEqual"
    THEN (IF status = 0 THEN "AssertionError" ELSE "none")
    ELSE "none"

InitDown ==
    /\ d_vm \in {"controllerVM", "computeVM"}
    /\ d_name \in {"controllerVM", "computeVM"}
    /\ d_pc = 1
    /\ d_done = <<>>
    /\ d_status = -1
    /\ d_exc = "none"
    /\ d_image \in {"golden", "modified"}
    /\ d_fn = "teardownTest"
    /\ d_prev = NoTeardown
    /\ DownRestOff

\* The next step of the teardown function.
TeardownStep ==
    /\ d_pc # 0
    /\ LET step == RoleSteps(d_fn, d_vm)[d_pc]
           statuses == IF step.method = "raise"
                       THEN {IF d_name # d_vm THEN 1 ELSE 0}
                       ELSE IF step.method = "assertNotEqual"
                       THEN {d_status}
                       ELSE Statuses(step.method)
       IN \E status \in statuses :
            LET exc == StepRaises(step.method, status)
            IN /\ d_done' = Append(d_done, [step |-> step.name,
                                            status |-> status])
               /\ d_status' = IF step.name = "journal" THEN status
                              ELSE d_status
               /\ d_image' = IF step.name = "image_reset" /\ exc = "none"
                             THEN "golden" ELSE d_image
               /\ d_exc' = exc
               /\ d_pc' = IF exc # "none" \/ d_pc = Len(RoleSteps(d_fn, d_vm))
                          THEN 0 ELSE d_pc + 1
    /\ UNCHANGED <<d_vm, d_name, d_fn, d_prev,
                   wait_vars, guard_vars, hot_vars, net_vars, down_rest>>

NextDown == TeardownStep

SpecDown == InitDown /\ [][NextDown]_vars

\* Mutation of TearDownContinues: the compute VM torn down in any case.
TearDownContinues_Always(exc) == TRUE

\* LibvirtTestsBase.tearDown goes on to teardownTestComputeVM: only when
\* teardownTestControllerVM returned, an exception leaves tearDown.
TearDownContinues(exc) == exc = "none"

\* tearDown of a test case with both machines: the controller VM first.
InitTearDown ==
    /\ d_vm = "controllerVM"
    /\ d_name \in {"controllerVM", "computeVM"}
    /\ d_pc = 1
    /\ d_done = <<>>
    /\ d_status = -1
    /\ d_exc = "none"
    /\ d_image \in {"golden", "modified"}
    /\ d_fn = "teardownTest"
    /\ d_prev = NoTeardown
    /\ DownRestOff

\* teardownTestControllerVM is over: teardownTestComputeVM(self.computeVM).
TearDownCompute ==
    /\ d_fn = "teardownTest" /\ d_vm = "controllerVM" /\ d_pc = 0
    /\ ~d_prev.ran
    /\ TearDownContinues(d_exc)
    /\ d_prev' = [ran |-> TRUE, exc |-> d_exc, done |-> d_done]
    /\ d_vm' = "computeVM"
    /\ d_name' \in {"controllerVM", "computeVM"}
    /\ d_pc' = 1
    /\ d_done' = <<>>
    /\ d_status' = -1
    /\ d_exc' = "none"
    /\ UNCHANGED <<d_image, d_fn,
                   wait_vars, guard_vars, hot_vars, net_vars, down_rest>>

NextTearDown == TeardownStep \/ TearDownCompute

SpecTearDown == InitTearDown /\ [][NextTearDown]_vars

\* C31: in tearDown the teardown of the compute VM runs only after the
\* teardown of the controller VM ran through all its steps without raising;
\* after a controller teardown that raised no step is made on the compute VM.
C31_ComputeAfterControllerOnly ==
    (d_vm = "computeVM") =>
        /\ d_prev.ran
        /\ d_prev.exc = "none"
        /\ Len(d_prev.done) = Len(TeardownSteps("controllerVM"))
        /\ d_prev.done[Len(d_prev.done)].step = "assert"

\* Witness of C31: the controller teardown went through and the compute
\* teardown has issued commands.
C31_Witness ==
    /\ d_vm = "computeVM" /\ d_prev.ran /\ d_prev.exc = "none"
    /\ Len(d_done) >= 4

\* The role-bound functions called on a machine of either name.
InitRole ==
    /\ d_vm \in {"controllerVM", "computeVM"}
    /\ d_name \in {"controllerVM", "computeVM"}
    /\ d_pc = 1
    /\ d_done = <<>>
    /\ d_status = -1
    /\ d_exc = "none"
    /\ d_image \in {"golden", "modified"}
    /\ d_fn \in {"initial", "setupTest", "teardownTest"}
    /\ d_prev = NoTeardown
    /\ DownRestOff

SpecRole == InitRole /\ [][NextDown]_vars

\* C34: a role-bound function called with a machine of another name makes
\* one step, the name check, which raises RuntimeError: no command is issued
\* on the machine.
C34_WrongNameRejectedFirst ==
    (d_fn # "none" /\ d_name # d_vm /\ d_done # <<>>) =>
        /\ d_done = <<[step |-> "name_check", status |-> 1]>>
        /\ d_exc = "RuntimeError"
        /\ d_pc = 0

\* Witness of C34: initialComputeVMSetup called with the controller VM has
\* raised RuntimeError.
C34_Witness ==
    /\ d_fn = "initial" /\ d_vm = "computeVM" /\ d_name = "controllerVM"
    /\ d_exc = "RuntimeError" /\ Len(d_done) = 1

\* The steps executed so far.
StepsDone == {d_done[i].step : i \in 1..Len(d_done)}

\* The steps that clean up after the test.
CleanupSteps(vm) ==
    {"destroy", "undefine", "xml_run", "xml_lib", "mv_vmm", "mv_serial",
     "rm_expect"} \cup (IF vm = "controllerVM" THEN {"image_reset"} ELSE {})

\* C29: the journal is sampled before the domains are destroyed and
\* undefined, the test is failed for a sanitizer finding only after every
\* cleanup step has been executed, and a teardown whose cleanup steps all
\* went through fails the test exactly when the journal grep returned 0.
C29_SanitizerAssertedLast ==
    /\ ("destroy" \in StepsDone \/ "undefine" \in StepsDone) => d_status # -1
    /\ (d_exc = "AssertionError") =>
          /\ d_status = 0
          /\ CleanupSteps(d_vm) \subseteq StepsDone
    /\ (d_vm # "none" /\ d_pc = 0 /\ d_exc = "none") => d_status # 0

\* Witness of C29: the journal grep found an ERROR line, every cleanup step
\* of the controller teardown went through and the assertion failed the test.
C29_Witness ==
    /\ d_vm = "controllerVM" /\ d_pc = 0 /\ d_exc = "AssertionError"
    /\ d_status = 0 /\ Len(d_done) = 12 /\ d_image = "golden"

\* C30: when teardownTestControllerVM, called with the controller machine,
\* has ended, the image reset has been executed, whatever the earlier steps
\* did.
C30_ImageAlwaysReset ==
    (d_vm = "controllerVM" /\ d_name = "controllerVM" /\ d_pc = 0) =>
        "image_reset" \in StepsDone

(***************************************************************************)
(* The hugepage suite (testscript_hugepage_tests.py)                       *)
(*                                                                         *)
(* unittest runs the tests of a TestSuite in the order they were added,    *)
(* setUpClass before the first test of the class and tearDownClass after   *)
(* the last; when setUpClass raises, neither the tests nor tearDownClass   *)
(* run.  A test whose setUp raises does not run its body.                  *)
(***************************************************************************)
\* Mutation of suite: the tests in the alphabetical order of their names, as
\* the default loader sorts them.
suite_Alphabetical ==
    <<"test_hugepages", "test_hugepages_prefault",
      "test_live_migration_with_hugepages",
      "test_live_migration_with_hugepages_failure_case",
      "test_numa_hugepages", "test_numa_hugepages_prefault">>

\* suite(): the test cases, in the order of the list.
suite ==
    <<"test_live_migration_with_hugepages", "test_hugepages",
      "test_hugepages_prefault", "test_numa_hugepages",
      "test_numa_hugepages_prefault",
      "test_live_migration_with_hugepages_failure_case">>

\* The statements of setUpClass after start_all() and of tearDownClass:
\* [machine, nr] is allocate_hugepages(machine, nr), nr = -1 the initial setup
\* of the machine.
ClassSteps(fixture) ==
    IF fixture = "setUpClass"
    THEN <<[machine |-> "controllerVM", nr |-> NR_HUGEPAGES],
           [machine |-> "computeVM", nr |-> NR_HUGEPAGES],
           [machine |-> "controllerVM", nr |-> -1],
           [machine |-> "computeVM", nr |-> -1]>>
    ELSE <<[machine |-> "controllerVM", nr |-> 0],
           [machine |-> "computeVM", nr |-> 0]>>

\* allocate_hugepages(machine, nr) on a machine whose pages are allocated or
\* not (had): the states it can leave the machine in, when it returns (the
\* free count reached nr) and when it raises (the echo failed or the count
\* was not reached in 10 polls).
allocate_hugepages(had, nr, raises) ==
    IF ~raises THEN {nr > 0} ELSE {had, nr > 0}

InitHuge ==
    /\ u_pc = "setUpClass"
    /\ u_idx = 1
    /\ u_pages \in [LogMachines -> BOOLEAN]
    /\ u_ran = <<>>
    /\ u_exc = "none"
    /\ HugeRestOff

\* The next statement of setUpClass or tearDownClass.
HugeClassStep ==
    /\ u_pc \in {"setUpClass", "tearDownClass"}
    /\ LET step == ClassSteps(u_pc)[u_idx]
       IN \E raises \in BOOLEAN :
            /\ IF step.nr >= 0
               THEN \E after \in allocate_hugepages(u_pages[step.machine],
                                                    step.nr, raises) :
                       u_pages' = [u_pages EXCEPT ![step.machine] = after]
               ELSE UNCHANGED u_pages
            /\ IF raises
               THEN u_exc' = u_pc /\ u_pc' = "done" /\ UNCHANGED u_idx
               ELSE /\ UNCHANGED u_exc
                    /\ IF u_idx < Len(ClassSteps(u_pc))
                       THEN u_idx' = u_idx + 1 /\ UNCHANGED u_pc
                       ELSE /\ u_idx' = 1
                            /\ u_pc' = IF u_pc = "setUpClass" THEN "tests"
                                       ELSE "done"
    /\ UNCHANGED <<u_ran,
                   wait_vars, guard_vars, hot_vars, net_vars, huge_rest>>

\* The next test of the suite runs: setUp raises and the body is skipped, or
\* the body runs; the body of the failure-case test starts with
\* free_hugepages_compute().
HugeTest ==
    /\ u_pc = "tests"
    /\ LET test == suite[u_idx]
       IN \E body \in BOOLEAN, raises \in BOOLEAN :
            /\ u_ran' = Append(u_ran,
                               [test |-> test, body |-> body,
                                controller |-> u_pages["controllerVM"],
                                compute |-> u_pages["computeVM"]])
            /\ IF body /\ test = "test_live_migration_with_hugepages_failure_case"
               THEN \E after \in allocate_hugepages(u_pages["computeVM"], 0,
                                                    raises) :
                       u_pages' = [u_pages EXCEPT !["computeVM"] = after]
               ELSE UNCHANGED u_pages
    /\ IF u_idx < Len(suite)
       THEN u_idx' = u_idx + 1 /\ UNCHANGED u_pc
       ELSE u_idx' = 1 /\ u_pc' = "tearDownClass"
    /\ UNCHANGED <<u_exc,
                   wait_vars, guard_vars, hot_vars, net_vars, huge_rest>>

NextHuge == HugeClassStep \/ HugeTest

SpecHuge == InitHuge /\ [][NextHuge]_vars

\* C37: every test starts with the hugepages allocated on the controller VM,
\* and on the compute VM too unless the failure-case test has run before it;
\* the failure-case test is the last test run, so the test that migrates to
\* hugepages on the compute VM never runs after it; and when tearDownClass
\* has returned all six tests have run and both machines have no hugepages.
C37_HugepagesAroundTests ==
    /\ \A i \in 1..Len(u_ran) :
          /\ u_ran[i].controller
          /\ (u_ran[i].test = "test_live_migration_with_hugepages" =>
                 u_ran[i].compute)
          /\ (u_ran[i].test = "test_live_migration_with_hugepages_failure_case"
                 => i = Len(u_ran) /\ u_pc \in {"tearDownClass", "done"})
          /\ \A j \in 1..(i - 1) :
                 u_ran[j].test
                     # "test_live_migration_with_hugepages_failure_case"
                 /\ u_ran[j].test # u_ran[i].test
    /\ (u_pc = "done" /\ u_exc = "none") =>
          /\ Len(u_ran) = 6
          /\ \A m \in LogMachines : ~u_pages[m]

\* Witness of C37: the suite ran through; the failure-case test, run last,
\* started with the compute VM's hugepages allocated, and tearDownClass left
\* both machines without hugepages.
C37_Witness ==
    /\ u_pc = "done" /\ u_exc = "none" /\ Len(u_ran) = 6
    /\ u_ran[6].test = "test_live_migration_with_hugepages_failure_case"
    /\ u_ran[6].body /\ u_ran[6].compute
    /\ \A m \in LogMachines : ~u_pages[m]

(***************************************************************************)
(* BodyContainsOnBehalfOfSAPMarker.validate (gitlint rule UC-sap)          *)
(*                                                                         *)
(* A string is the sequence of the pieces it is the concatenation of;      *)
(* `x in s` and s.startswith(x) are decided on whole pieces.               *)
(***************************************************************************)
\* str.lower(), piece by piece.
LowerPiece(p) ==
    CASE p = "@SAP.COM" -> "@sap.com"
      [] p = "@Cyberus-Technology.DE" -> "@cyberus-technology.de"
      [] p = "On-behalf-of: SAP" -> "on-behalf-of: sap"
      [] p = "Signed-off-by:" -> "signed-off-by:"
      [] OTHER -> p

Lower(s) == [i \in 1..Len(s) |-> LowerPiece(s[i])]

\* x in s
Contains(s, x) == \E i \in 1..Len(s) : s[i] = x

\* The class attributes contractors and marker.
contractors == <<"@cyberus-technology.de">>
marker == "On-behalf-of: SAP"

\* Mutation of MarkerLine: the marker looked for anywhere in the line.
MarkerLine_Anywhere(line) ==
    Contains(line, marker) /\ Contains(Lower(line), "@sap.com")

\* line.startswith(self.marker) and "@sap.com" in line.lower()
MarkerLine(line) ==
    /\ line # <<>> /\ Head(line) = marker
    /\ Contains(Lower(line), "@sap.com")

\* for line in commit.message.body: ... return
RECURSIVE BodyLoop(_)
BodyLoop(body) ==
    IF body = <<>> THEN "violation"
    ELSE IF MarkerLine(Head(body)) THEN "none"
    ELSE BodyLoop(Tail(body))

\* validate(commit): "none" when it returns None, "violation" when it returns
\* the list with the RuleViolation.
validate(email, body) ==
    IF Contains(Lower(email), "@sap.com") THEN "none"
    ELSE IF ~(\E c \in 1..Len(contractors) :
                 Contains(Lower(email), contractors[c]))
    THEN "none"
    ELSE BodyLoop(body)

LintEmails ==
    { <<"dev", "@sap.com">>, <<"dev", "@SAP.COM">>,
      <<"dev", "@cyberus-technology.de">>,
      <<"dev", "@Cyberus-Technology.DE">>,
      <<"dev", "@example.org">>,
      <<"dev", "@sap.com", ".", "@cyberus-technology.de">> }

LintLines ==
    { <<"On-behalf-of: SAP", " ", "user", "@sap.com">>,
      <<"On-behalf-of: SAP", " ", "user", "@SAP.COM">>,
      <<"on-behalf-of: sap", " ", "user", "@sap.com">>,
      <<"On-behalf-of: SAP", " ", "user", "@example.org">>,
      <<"Signed-off-by:", " ", "user", "@sap.com">>,
      <<" ", "On-behalf-of: SAP", " ", "user", "@sap.com">>,
      <<>> }

InitLint ==
    /\ c_email \in LintEmails
    /\ c_body \in SeqsUpTo(LintLines, MaxBodyLines)
    /\ c_out = "pending"
    /\ LintRestOff

\* gitlint applies the rule to the commit.
LintValidate ==
    /\ c_out = "pending"
    /\ c_out' = validate(c_email, c_body)
    /\ UNCHANGED <<c_email, c_body,
                   wait_vars, guard_vars, hot_vars, net_vars, lint_rest>>

NextLint == LintValidate

SpecLint == InitLint /\ [][NextLint]_vars

\* C38: validate reports a violation exactly when the lower-cased author
\* email has no "@sap.com", has a contractor domain, and no body line starts
\* with "On-behalf-of: SAP" and has "@sap.com" in its lower-cased text; it
\* reports nothing in every other case.
C38_ViolationIffUnmarkedContractor ==
    (c_out \in {"none", "violation"}) =>
        (c_out = "violation" <=>
            /\ \A i \in 1..Len(c_email) : LowerPiece(c_email[i]) # "@sap.com"
            /\ \E i \in 1..Len(c_email) :
                  LowerPiece(c_email[i]) = "@cyberus-technology.de"
            /\ \A l \in 1..Len(c_body) :
                  ~(/\ Len(c_body[l]) > 0
                    /\ c_body[l][1] = "On-behalf-of: SAP"
                    /\ \E i \in 1..Len(c_body[l]) :
                          LowerPiece(c_body[l][i]) = "@sap.com"))

\* Witness of C38: a contractor's commit whose second body line is the marker
\* with an upper-case SAP address passes; the first line has the marker in
\* the middle.
C38_Witness ==
    /\ c_out = "none"
    /\ c_email = <<"dev", "@Cyberus-Technology.DE">>
    /\ c_body = << <<" ", "On-behalf-of: SAP", " ", "user", "@sap.com">>,
                   <<"On-behalf-of: SAP", " ", "user", "@SAP.COM">> >>

====
